---- MODULE Spec2Model ----
(***************************************************************************)
(* GameWikiOverlay (GameFloaty): the hotkey-triggered pipeline of AppLogic *)
(* with its single popup, the HotkeyManager's register / unregister /      *)
(* reregister under its lock, and the ConfigManager's settings and game    *)
(* catalog loaders.                                                        *)
(*                                                                         *)
(* Python strings are TLA+ strings; None and "" are both written "" where  *)
(* the code only tests truthiness (last_search_url_str, SearchTemplate),   *)
(* and an absent KeywordMap is the empty mapping.                          *)
(***************************************************************************)
EXTENDS Integers, Sequences, FiniteSets, TLC

VARIABLES
    \* ---- AppLogic (app_logic.py) ----
    settings,         \* AppLogic.settings: [Hotkey, Popup]
    game_configs,     \* AppLogic.game_configs: the catalog, in document order
    current_popup,    \* AppLogic.current_popup: 0 (None) or an index of popups
    last_search_url_str,
    popups,           \* the WebViewPopup objects created and not yet closed
    pending,          \* queued emissions of hotkey_pressed_signal
    stack,            \* pipeline runs blocked in SearchPromptDialog.exec()
    tray_icon,        \* TrayManager.icon is not None
    quit,             \* QApplication.quit() was called
    disk,             \* settings.json in the user directory, as a document
    ev,               \* what the last step did (history, read by the properties)
    \* ---- HotkeyManager (core/hotkey_manager.py) ----
    hk,               \* the manager's fields
    listeners,        \* the GlobalHotKeys listeners started and not stopped
    lock,             \* HotkeyManager._lock: 0 (free) or the holding thread
    thr,              \* each caller thread's position in its registrar call
    hkev,             \* the last completed registrar call (history)
    \* ---- ConfigManager (config_manager.py) ----
    default_doc,      \* data_defaults/settings.json
    games_doc,        \* data_defaults/games.json
    cfgev             \* the last loader call and its outcome (history)

appVars == <<settings, game_configs, current_popup, last_search_url_str,
             popups, pending, stack, tray_icon, quit, disk, ev>>
hkVars  == <<hk, listeners, lock, thr, hkev>>
cfgVars == <<default_doc, games_doc, cfgev>>
vars    == <<appVars, hkVars, cfgVars>>

(***************************************************************************)
(* Bounds of the model.                                                    *)
(***************************************************************************)
MaxPending == 1      \* queued hotkey events not yet handled
MaxQueued  == 2      \* the same, where firings pile up unhandled
MaxNest    == 1      \* pipeline runs blocked in a prompt at once
MaxLive    == 2      \* popup objects alive at once (the code keeps one)
MaxListeners == 2    \* listeners alive at once (the code keeps one)
MaxEntries == 2      \* entries of a games.json document

(***************************************************************************)
(* Strings.                                                                *)
(***************************************************************************)
UpperChars == <<"A","B","C","D","E","F","G","H","I","J","K","L","M",
                "N","O","P","Q","R","S","T","U","V","W","X","Y","Z">>
LowerChars == <<"a","b","c","d","e","f","g","h","i","j","k","l","m",
                "n","o","p","q","r","s","t","u","v","w","x","y","z">>

LowerChar(c) ==
    IF \E i \in 1..Len(UpperChars) : UpperChars[i] = c
    THEN LowerChars[CHOOSE i \in 1..Len(UpperChars) : UpperChars[i] = c]
    ELSE c

RECURSIVE Lower(_)
\* str.lower()
Lower(s) ==
    IF Len(s) = 0 THEN ""
    ELSE LowerChar(SubSeq(s, 1, 1)) \o Lower(SubSeq(s, 2, Len(s)))

\* a in b
Contains(a, b) ==
    \E i \in 0..(Len(b) - Len(a)) : SubSeq(b, i + 1, i + Len(a)) = a

\* b.startswith(a)
StartsWith(a, b) == Len(a) <= Len(b) /\ SubSeq(b, 1, Len(a)) = a

RECURSIVE LStrip(_)
LStrip(s) ==
    IF Len(s) > 0 /\ SubSeq(s, 1, 1) = " " THEN LStrip(SubSeq(s, 2, Len(s))) ELSE s

RECURSIVE RStrip(_)
RStrip(s) ==
    IF Len(s) > 0 /\ SubSeq(s, Len(s), Len(s)) = " "
    THEN RStrip(SubSeq(s, 1, Len(s) - 1)) ELSE s

\* str.strip()
Strip(s) == RStrip(LStrip(s))

RECURSIVE Replace(_, _, _)
\* str.replace(old, new), old non-empty: every occurrence, left to right
Replace(s, old, new) ==
    IF Len(s) < Len(old) THEN s
    ELSE IF SubSeq(s, 1, Len(old)) = old
         THEN new \o Replace(SubSeq(s, Len(old) + 1, Len(s)), old, new)
         ELSE SubSeq(s, 1, 1) \o Replace(SubSeq(s, 2, Len(s)), old, new)

SafeChars ==
    { UpperChars[i] : i \in 1..Len(UpperChars) } \cup
    { LowerChars[i] : i \in 1..Len(LowerChars) } \cup
    {"0","1","2","3","4","5","6","7","8","9","_",".","-","~"}

\* urllib.parse.quote_plus on one character (the ASCII characters the
\* catalog and the terms use)
QuoteChar(c) ==
    CASE c \in SafeChars -> c
      [] c = " " -> "+"
      [] c = "+" -> "%2B"
      [] c = "/" -> "%2F"
      [] c = ":" -> "%3A"
      [] c = "?" -> "%3F"
      [] c = "=" -> "%3D"
      [] c = "&" -> "%26"
      [] c = "%" -> "%25"
      [] c = "{" -> "%7B"
      [] c = "}" -> "%7D"
      [] OTHER -> "%" \o c   \* no other character occurs in the model's inputs

RECURSIVE QuotePlus(_)
QuotePlus(s) ==
    IF Len(s) = 0 THEN ""
    ELSE QuoteChar(SubSeq(s, 1, 1)) \o QuotePlus(SubSeq(s, 2, Len(s)))

(***************************************************************************)
(* Data models (common/data_models.py).                                    *)
(***************************************************************************)
\* PopupConfig(): the field defaults
DefaultPopupConfig == [Width |-> 800, Height |-> 600, Left |-> 100, Top |-> 100]

\* ConfigManager._get_default_hotkey_config
DefaultHotkeyConfig == [Key |-> "F1", Modifiers |-> <<"Ctrl">>]

\* AppSettings(Hotkey=default hotkey, Popup=default popup)
DefaultSettings == [Hotkey |-> DefaultHotkeyConfig, Popup |-> DefaultPopupConfig]

\* "no HotkeyConfig" (None): a config with an empty Key is never stored
NoConfig == [Key |-> "", Modifiers |-> <<>>]

\* "no callback" (None)
NoCallback == "none"

(***************************************************************************)
(* HotkeyManager (core/hotkey_manager.py).                                 *)
(*                                                                         *)
(* hk is the manager object; listeners holds one record per GlobalHotKeys  *)
(* listener that was started and not stopped, and hk.listener is 0 (None)  *)
(* or the index of the listener the manager holds.                         *)
(***************************************************************************)
Digits == {"0","1","2","3","4","5","6","7","8","9"}

\* str.isdigit()
IsDigit(s) ==
    Len(s) > 0 /\ \A i \in 1..Len(s) : SubSeq(s, i, i) \in Digits

DigitVal(c) == CHOOSE n \in 0..9 : SubSeq("0123456789", n + 1, n + 1) = c

RECURSIVE ToInt(_)
\* int(s) for a string of digits
ToInt(s) ==
    IF Len(s) = 0 THEN 0
    ELSE 10 * ToInt(SubSeq(s, 1, Len(s) - 1)) + DigitVal(SubSeq(s, Len(s), Len(s)))

\* modifier_map.get(mod)
ModifierToken(mod) ==
    CASE mod = "Ctrl"  -> "ctrl"
      [] mod = "Shift" -> "shift"
      [] mod = "Alt"   -> "alt"
      [] mod = "Win"   -> "cmd"
      [] OTHER         -> ""

RECURSIVE ModifierParts(_)
ModifierParts(mods) ==
    IF mods = <<>> THEN <<>>
    ELSE (IF ModifierToken(Head(mods)) # ""
          THEN << "<" \o ModifierToken(Head(mods)) \o ">" >>
          ELSE <<>>) \o ModifierParts(Tail(mods))

\* KeyPart that puts every key in angle brackets
KeyPart_AlwaysBracketed(key) == "<" \o Lower(key) \o ">"

\* _parse_hotkey, lines 66-77: the token of the key
KeyPart(key) ==
    LET key_lower == Lower(key)
        rest == SubSeq(key_lower, 2, Len(key_lower))
        is_f_key == /\ StartsWith("f", key_lower)
                    /\ IsDigit(rest)
                    /\ 1 <= ToInt(rest) /\ ToInt(rest) <= 12
    IN IF is_f_key THEN "<" \o key_lower \o ">"
       ELSE IF Len(key_lower) > 1 THEN "<" \o key_lower \o ">"
       ELSE key_lower

RECURSIVE Join(_)
\* "+".join(parts)
Join(parts) ==
    IF parts = <<>> THEN ""
    ELSE IF Len(parts) = 1 THEN parts[1]
    ELSE parts[1] \o "+" \o Join(Tail(parts))

\* HotkeyManager._parse_hotkey
ParseHotkey(hotkey_config) ==
    Join(ModifierParts(hotkey_config.Modifiers) \o << KeyPart(hotkey_config.Key) >>)

\* a sequence without its i-th element
RemoveAt(seq, i) ==
    [j \in 1..(Len(seq) - 1) |-> IF j < i THEN seq[j] ELSE seq[j + 1]]

\* the callback AppLogic passes
AppCallback == "_emit_hotkey_signal"

\* HotkeyManager.__init__
NewHotkeyManager(cb) ==
    [on_hotkey_pressed_callback |-> cb,
     listener |-> 0,
     current_hotkey_config |-> NoConfig,
     hotkey_active |-> FALSE]

\* StopListenerInternal that drops the handle and leaves the listener running
StopListenerInternal_Forgets(h, ls) ==
    [hk |-> [h EXCEPT !.listener = 0, !.hotkey_active = FALSE],
     ls |-> ls]

\* HotkeyManager._stop_listener_internal: the state [hk, ls] afterwards
StopListenerInternal(h, ls) ==
    [hk |-> [h EXCEPT !.listener = 0, !.hotkey_active = FALSE],
     ls |-> IF h.listener # 0 THEN RemoveAt(ls, h.listener) ELSE ls]

\* RegisterPrepare that leaves a listener that is running in place
RegisterPrepare_NoTeardown(h, ls, hotkey_config, cb) ==
    LET h1 == IF cb # NoCallback THEN [h EXCEPT !.on_hotkey_pressed_callback = cb]
              ELSE h
    IN IF hotkey_config.Key = ""
       THEN [hk |-> h1, ls |-> ls, go |-> FALSE]
       ELSE [hk |-> [h1 EXCEPT !.current_hotkey_config = hotkey_config],
             ls |-> ls, go |-> TRUE]

\* register_global_hotkey, lines 94-110: callback, validation, config and the
\* teardown of an existing listener.  [hk, ls, go] with go = FALSE for the
\* early "return False".
RegisterPrepare(h, ls, hotkey_config, cb) ==
    LET h1 == IF cb # NoCallback THEN [h EXCEPT !.on_hotkey_pressed_callback = cb]
              ELSE h
    IN IF hotkey_config.Key = ""
       THEN [hk |-> h1, ls |-> ls, go |-> FALSE]
       ELSE LET h2 == [h1 EXCEPT !.current_hotkey_config = hotkey_config]
                st == IF h2.listener # 0 THEN StopListenerInternal(h2, ls)
                      ELSE [hk |-> h2, ls |-> ls]
            IN [hk |-> st.hk, ls |-> st.ls, go |-> TRUE]

\* RegisterStart that reports the hotkey active although the start failed
RegisterStart_StaysActive(h, ls, hotkey_config, platform) ==
    IF platform = "ok"
    THEN [hk |-> [h EXCEPT !.listener = Len(ls) + 1, !.hotkey_active = TRUE],
          ls |-> Append(ls, [combo |-> ParseHotkey(hotkey_config)]),
          ret |-> TRUE]
    ELSE [hk |-> [h EXCEPT !.current_hotkey_config = NoConfig,
                           !.hotkey_active = TRUE],
          ls |-> ls,
          ret |-> FALSE]

\* register_global_hotkey, lines 112-128: the listener is created and started;
\* platform is what pynput does: "ok", "ctor_raises" (GlobalHotKeys rejects the
\* string) or "start_raises".  [hk, ls, ret]
RegisterStart(h, ls, hotkey_config, platform) ==
    IF platform = "ok"
    THEN [hk |-> [h EXCEPT !.listener = Len(ls) + 1, !.hotkey_active = TRUE],
          ls |-> Append(ls, [combo |-> ParseHotkey(hotkey_config)]),
          ret |-> TRUE]
    ELSE IF platform = "ctor_raises"
    THEN \* self.listener is still what the teardown left
         LET h1 == [h EXCEPT !.current_hotkey_config = NoConfig]
             st == IF h1.listener # 0 THEN StopListenerInternal(h1, ls)
                   ELSE [hk |-> h1, ls |-> ls]
         IN [hk |-> st.hk, ls |-> st.ls, ret |-> FALSE]
    ELSE \* the new, unstarted listener is held, then stopped and dropped
         [hk |-> [h EXCEPT !.current_hotkey_config = NoConfig,
                           !.listener = 0, !.hotkey_active = FALSE],
          ls |-> ls,
          ret |-> FALSE]

Platforms == {"ok", "ctor_raises", "start_raises"}

\* register_global_hotkey as one call.  [hk, ls, ret]
RegisterGlobalHotkey(h, ls, hotkey_config, cb, platform) ==
    LET p == RegisterPrepare(h, ls, hotkey_config, cb)
    IN IF ~p.go THEN [hk |-> p.hk, ls |-> p.ls, ret |-> FALSE]
       ELSE RegisterStart(p.hk, p.ls, hotkey_config, platform)

\* unregister_global_hotkey as one call.  [hk, ls]
UnregisterGlobalHotkey(h, ls) == StopListenerInternal(h, ls)

\* reregister_hotkeys run by one caller with no other caller in between
ReregisterHotkeys(h, ls, hotkey_config, cb, platform) ==
    LET u == UnregisterGlobalHotkey(h, ls)
    IN RegisterGlobalHotkey(u.hk, u.ls, hotkey_config, cb, platform)

\* _on_press_internal runs on the listener's thread: the callbacks a firing
\* of the key combination combo invokes (one per running listener bound to it)
FiredCallbacks(h, ls, combo) ==
    IF h.on_hotkey_pressed_callback = NoCallback THEN 0
    ELSE Cardinality({i \in 1..Len(ls) : ls[i].combo = combo})

(***************************************************************************)
(* HotkeyManager: its callers.  register / unregister / reregister are     *)
(* called from the Qt thread (start, save of a new hotkey) and from the    *)
(* tray thread (exit -> stop_listener_if_running); each caller is a thread *)
(* with a position pc in its call:                                         *)
(*   idle        no call in progress                                       *)
(*   unreg_wait  at "with self._lock" of unregister_global_hotkey          *)
(*   unreg_cs    inside it, holding the lock                               *)
(*   reg_wait    at "with self._lock" of register_global_hotkey            *)
(*   reg_cs      inside it, before the listener is created                 *)
(*   reg_start   inside it, at the try block                               *)
(***************************************************************************)
Threads == {1, 2}

IdleThread == [pc |-> "idle", op |-> "none", cfg |-> NoConfig, cb |-> NoCallback]

\* the configurations a caller may pass
HotkeyConfigs ==
    { DefaultHotkeyConfig,
      [Key |-> "G", Modifiers |-> <<"Alt", "Hyper", "Shift">>],
      NoConfig }

\* the callback of the manager's own test
TestCallback == "my_hotkey_callback"

Callbacks == { NoCallback, AppCallback, TestCallback }

\* the key combinations a user may press
Combos == { ParseHotkey(c) : c \in HotkeyConfigs \ {NoConfig} }

\* hkev: what the last step of the registrar did
NoHkEvent ==
    [op |-> "none", t |-> 0, ret |-> FALSE, cfg |-> NoConfig,
     cb |-> NoCallback, combo |-> "", fired |-> 0]

Returned(op, t, ret, cfg, cb) ==
    [NoHkEvent EXCEPT !.op = op, !.t = t, !.ret = ret, !.cfg = cfg, !.cb = cb]

\* LockFree that lets every caller in
LockFree_Always(l) == TRUE

\* threading.Lock: "with self._lock" is entered when no thread holds it
LockFree(l) == l = 0

(***************************************************************************)
(* ConfigManager (config_manager.py) and the pydantic models               *)
(* (common/data_models.py).                                                *)
(*                                                                         *)
(* A file is a document [kind, val]: missing, text that is not JSON        *)
(* ("garbage"), bytes the text decoder rejects ("undecodable"), or JSON    *)
(* text, whose val is what json.load returns.  A JSON value is a record    *)
(* [t, v]; an object is the sequence of its <<key, value>> members in      *)
(* document order, with distinct keys.                                     *)
(***************************************************************************)
JNull      == [t |-> "null", v |-> <<>>]
JBool(b)   == [t |-> "bool", v |-> b]
JNum(n)    == [t |-> "num",  v |-> n]
JStr(s)    == [t |-> "str",  v |-> s]
JList(xs)  == [t |-> "list", v |-> xs]
JObj(mems) == [t |-> "obj",  v |-> mems]

MissingDoc     == [kind |-> "missing",     val |-> JNull]
GarbageDoc     == [kind |-> "garbage",     val |-> JNull]
UndecodableDoc == [kind |-> "undecodable", val |-> JNull]
JsonDoc(j)     == [kind |-> "json",        val |-> j]

\* key in dict
Has(obj, key) == \E i \in 1..Len(obj.v) : obj.v[i][1] = key

\* dict[key]
Get(obj, key) == obj.v[CHOOSE i \in 1..Len(obj.v) : obj.v[i][1] = key][2]

\* the keys of a dict
Keys(obj) == { obj.v[i][1] : i \in 1..Len(obj.v) }

\* open(path, 'r') and json.load: the exception raised ("" for none) and the
\* value loaded
JsonLoad(doc) ==
    CASE doc.kind = "missing"     -> [raised |-> "FileNotFoundError", val |-> JNull]
      [] doc.kind = "garbage"     -> [raised |-> "JSONDecodeError", val |-> JNull]
      [] doc.kind = "undecodable" -> [raised |-> "UnicodeDecodeError", val |-> JNull]
      [] OTHER                    -> [raised |-> "", val |-> doc.val]

GameConfig(base, needs, template, kmap) ==
    [BaseUrl |-> base, NeedsSearch |-> needs, SearchTemplate |-> template,
     KeywordMap |-> kmap]

NoKeywordMap == <<>>

\* HotkeyConfig(**j): Key is a required str, Modifiers a list of str that
\* defaults to [].  [ok, val]; j is a JSON value
ValidateHotkeyConfig(j) ==
    LET ok == /\ j.t = "obj"
              /\ Has(j, "Key") /\ Get(j, "Key").t = "str"
              /\ Has(j, "Modifiers") =>
                    /\ Get(j, "Modifiers").t = "list"
                    /\ \A i \in 1..Len(Get(j, "Modifiers").v) :
                           Get(j, "Modifiers").v[i].t = "str"
    IN IF ~ok THEN [ok |-> FALSE, val |-> NoConfig]
       ELSE [ok |-> TRUE,
             val |-> [Key |-> Get(j, "Key").v,
                      Modifiers |->
                        IF Has(j, "Modifiers")
                        THEN [i \in 1..Len(Get(j, "Modifiers").v) |->
                                 Get(j, "Modifiers").v[i].v]
                        ELSE <<>>]]

PopupFields == {"Width", "Height", "Left", "Top"}

\* PopupConfig(**j): four floats with defaults (the numbers of the model are
\* whole).  [ok, val]
ValidatePopupConfig(j) ==
    LET ok == /\ j.t = "obj"
              /\ \A f \in PopupFields : Has(j, f) => Get(j, f).t = "num"
    IN IF ~ok THEN [ok |-> FALSE, val |-> DefaultPopupConfig]
       ELSE [ok |-> TRUE,
             val |-> [f \in PopupFields |->
                        IF Has(j, f) THEN Get(j, f).v ELSE DefaultPopupConfig[f]]]

\* AppSettings(**data): a TypeError when data is not a mapping, a
\* ValidationError when a field is missing or of the wrong type; other keys
\* are ignored.  [raised, val]
NewAppSettings(data) ==
    IF data.t # "obj" THEN [raised |-> "TypeError", val |-> DefaultSettings]
    ELSE IF /\ Has(data, "Hotkey") /\ ValidateHotkeyConfig(Get(data, "Hotkey")).ok
            /\ Has(data, "Popup")  /\ ValidatePopupConfig(Get(data, "Popup")).ok
    THEN [raised |-> "",
          val |-> [Hotkey |-> ValidateHotkeyConfig(Get(data, "Hotkey")).val,
                   Popup  |-> ValidatePopupConfig(Get(data, "Popup")).val]]
    ELSE [raised |-> "ValidationError", val |-> DefaultSettings]

\* a Dict[str, str] as a function
MapOf(obj) == [k \in Keys(obj) |-> Get(obj, k).v]

\* GameConfig(**j) for a mapping j: BaseUrl is a required str, NeedsSearch a
\* bool (default True), SearchTemplate a str or None, KeywordMap a
\* Dict[str, str] or None.  [ok, val]
ValidateGameConfig(j) ==
    LET absent(f) == ~Has(j, f) \/ Get(j, f).t = "null"
        ok == /\ Has(j, "BaseUrl") /\ Get(j, "BaseUrl").t = "str"
              /\ Has(j, "NeedsSearch") => Get(j, "NeedsSearch").t = "bool"
              /\ ~absent("SearchTemplate") => Get(j, "SearchTemplate").t = "str"
              /\ ~absent("KeywordMap") =>
                    /\ Get(j, "KeywordMap").t = "obj"
                    /\ \A k \in Keys(Get(j, "KeywordMap")) :
                           Get(Get(j, "KeywordMap"), k).t = "str"
    IN IF ~ok THEN [ok |-> FALSE, val |-> GameConfig("", TRUE, "", NoKeywordMap)]
       ELSE [ok |-> TRUE,
             val |-> GameConfig(
                       Get(j, "BaseUrl").v,
                       IF Has(j, "NeedsSearch") THEN Get(j, "NeedsSearch").v
                       ELSE TRUE,
                       IF absent("SearchTemplate") THEN ""
                       ELSE Get(j, "SearchTemplate").v,
                       IF absent("KeywordMap") THEN NoKeywordMap
                       ELSE MapOf(Get(j, "KeywordMap")))]

\* ModelDumpJson that leaves the modifiers out
ModelDumpJson_NoModifiers(s) ==
    JObj(<< <<"Hotkey", JObj(<< <<"Key", JStr(s.Hotkey.Key)>> >>)>>,
            <<"Popup",
              JObj(<< <<"Width",  JNum(s.Popup.Width)>>,
                      <<"Height", JNum(s.Popup.Height)>>,
                      <<"Left",   JNum(s.Popup.Left)>>,
                      <<"Top",    JNum(s.Popup.Top)>> >>)>> >>)

\* settings.model_dump_json(): the JSON value of the text written
ModelDumpJson(s) ==
    JObj(<< <<"Hotkey",
              JObj(<< <<"Key", JStr(s.Hotkey.Key)>>,
                      <<"Modifiers",
                        JList([i \in 1..Len(s.Hotkey.Modifiers) |->
                                  JStr(s.Hotkey.Modifiers[i])])>> >>)>>,
            <<"Popup",
              JObj(<< <<"Width",  JNum(s.Popup.Width)>>,
                      <<"Height", JNum(s.Popup.Height)>>,
                      <<"Left",   JNum(s.Popup.Left)>>,
                      <<"Top",    JNum(s.Popup.Top)>> >>)>> >>)

\* the document a successful save of s leaves
SettingsDoc(s) == JsonDoc(ModelDumpJson(s))

\* save_settings' open(..., 'w') and write: done ("ok"), open raises an
\* IOError ("io_error"), or the write raises one after open has emptied the
\* file ("partial")
WriteOutcomes == { "ok", "io_error", "partial" }

\* ConfigManager.save_settings, lines 105-112: the user document afterwards.
\* An IOError is logged and swallowed; the file is as it was when open
\* failed and empty or cut off, which is not JSON, when the write failed
SaveSettings(doc, s, w) ==
    CASE w = "ok"      -> SettingsDoc(s)
      [] w = "partial" -> GarbageDoc
      [] OTHER         -> doc

\* save_settings as a whole: the outcomes of the write, or os.makedirs of
\* a missing user directory raises ("dir_error")
SaveOutcomes == WriteOutcomes \cup { "dir_error" }

\* the user directory can only be missing when the document in it is
DirMayFail(doc) == doc.kind = "missing"

\* SaveSettingsFull that swallows the error of the directory as well
SaveSettingsFull_SwallowsAll(doc, s, o) ==
    IF o = "dir_error" THEN [raised |-> "", doc |-> doc]
    ELSE [raised |-> "", doc |-> SaveSettings(doc, s, o)]

\* ConfigManager.save_settings: _ensure_config_dir_exists runs outside the
\* try block, so its OSError leaves the call.  [raised, doc]
SaveSettingsFull(doc, s, o) ==
    IF o = "dir_error" THEN [raised |-> "OSError", doc |-> doc]
    ELSE [raised |-> "", doc |-> SaveSettings(doc, s, o)]

\* the fallback of load_settings: the hardcoded defaults are saved and
\* returned.  [raised, ret, doc]
SaveDefaults(doc, o) ==
    [raised |-> SaveSettingsFull(doc, DefaultSettings, o).raised,
     ret |-> DefaultSettings,
     doc |-> SaveSettingsFull(doc, DefaultSettings, o).doc]

\* shutil.copy of the default settings: done, or an IOError
CopyOutcomes == { "ok", "io_error" }

\* load_settings, lines 76-99: the user document exists and is read.
\* [raised, ret, doc]: the exception that leaves load_settings ("" for none),
\* the settings returned and the user document afterwards
ReadUserSettings(doc, w) ==
    LET l == JsonLoad(doc)
        a == NewAppSettings(l.val)
        fallback == SaveDefaults(doc, w)
    IN CASE l.raised \in {"FileNotFoundError", "JSONDecodeError"} -> fallback
         [] l.raised # "" -> [raised |-> l.raised, ret |-> DefaultSettings, doc |-> doc]
         [] a.raised = "ValidationError" -> fallback
         [] a.raised # "" -> [raised |-> a.raised, ret |-> DefaultSettings, doc |-> doc]
         [] OTHER -> [raised |-> "", ret |-> a.val, doc |-> doc]

\* LoadSettings that returns the defaults without writing them when there
\* is nothing to copy
LoadSettings_NoPersist(doc, default, c, w) ==
    IF doc.kind = "missing"
    THEN IF default.kind # "missing" /\ c = "ok"
         THEN ReadUserSettings(default, w)
         ELSE [raised |-> "", ret |-> DefaultSettings, doc |-> doc]
    ELSE ReadUserSettings(doc, w)

\* ConfigManager.load_settings; w is the outcome of the save it may reach.
\* [raised, ret, doc]
LoadSettings(doc, default, c, w) ==
    IF doc.kind = "missing"
    THEN IF default.kind # "missing"
         THEN IF c = "ok"
              THEN ReadUserSettings(default, w)
              ELSE SaveDefaults(doc, w)
         ELSE SaveDefaults(doc, w)
    ELSE ReadUserSettings(doc, w)

RECURSIVE LoadEntries(_, _)
\* load_game_configs, lines 146-151: the loop over data.items(); a
\* ValidationError skips the entry, a TypeError (GameConfig(**x) for x not a
\* mapping) leaves the loop.  [raised, out]
LoadEntries(mems, acc) ==
    IF mems = <<>> THEN [raised |-> "", out |-> acc]
    ELSE LET game_name == Head(mems)[1]
             config_data == Head(mems)[2]
         IN IF config_data.t # "obj"
            THEN [raised |-> "TypeError", out |-> acc]
            ELSE IF ValidateGameConfig(config_data).ok
            THEN LoadEntries(Tail(mems),
                             Append(acc, [name |-> game_name,
                                          cfg |-> ValidateGameConfig(config_data).val]))
            ELSE LoadEntries(Tail(mems), acc)

\* ConfigManager.load_game_configs: every exception is caught and answered
\* with {}.  [raised, ret]
LoadGameConfigs(doc) ==
    LET l == JsonLoad(doc)
    IN IF doc.kind = "missing" \/ l.raised # "" THEN [raised |-> "", ret |-> <<>>]
       ELSE IF l.val.t # "obj" THEN [raised |-> "", ret |-> <<>>]
       ELSE IF LoadEntries(l.val.v, <<>>).raised # ""
       THEN [raised |-> "", ret |-> <<>>]
       ELSE [raised |-> "", ret |-> LoadEntries(l.val.v, <<>>).out]

\* cfgev: the last call of the ConfigManager: the user document it found,
\* the outcomes of the copy and of the write it met, the exception that left
\* it, and the settings or catalog it returned (for a save, the settings
\* saved)
NoCfgEvent ==
    [op |-> "none", doc |-> MissingDoc, raised |-> "",
     settings |-> DefaultSettings, catalog |-> <<>>, c |-> "", w |-> ""]

(***************************************************************************)
(* AppLogic (app_logic.py): the inputs the model draws from.               *)
(***************************************************************************)
\* a catalog is the dict of load_game_configs in insertion order
CatalogA ==
    << [name |-> "Valorant",
        cfg  |-> GameConfig("https://w.ex/valorant", FALSE, "", NoKeywordMap)],
       [name |-> "Elden Ring",
        cfg  |-> GameConfig("https://w.ex/er/", TRUE, "https://w.ex/s?q={query}",
                            "boss" :> "Bosses")] >>

CatalogB ==
    << [name |-> "Counter-Strike 2",
        cfg  |-> GameConfig("https://cs.ex/", FALSE, "", NoKeywordMap)],
       [name |-> "VALORANT",
        cfg  |-> GameConfig("https://v.ex/", TRUE, "", NoKeywordMap)] >>

Catalogs == { <<>>, CatalogA, CatalogB }

\* what get_active_window_title may return
Titles == { "", "VALORANT  ", "Elden Ring", "counter-strike 2 - D3D" }

\* what the user may have typed into the prompt
TypedTexts == { "", " ", " Boss" }

\* catalogs for _build_url and the match loop called on their own: keys
\* that occur in one another, a profile that needs no search and still
\* carries a template and a keyword map, an empty key, and a base URL that
\* occurs inside the URLs of another profile
CatalogTie ==
    << [name |-> "Ring",
        cfg  |-> GameConfig("https://w.ex/ring", FALSE, "https://w.ex/r?q={query}",
                            "boss" :> "Bosses")],
       [name |-> "Elden Ring",
        cfg  |-> GameConfig("https://w.ex/er/", TRUE, "https://w.ex/s?q={query}",
                            "boss" :> "Bosses")],
       [name |-> "elden",
        cfg  |-> GameConfig("https://w.ex/e/", TRUE, "", "boss" :> "Bosses")] >>

CatalogWiki ==
    << [name |-> "Wiki Game",
        cfg  |-> GameConfig("https://wiki.example/", TRUE,
                            "https://wiki.example/search?q={query}", NoKeywordMap)],
       [name |-> "",
        cfg  |-> GameConfig("https://w.ex/any", FALSE, "", NoKeywordMap)],
       [name |-> "Wiki Mirror",
        cfg  |-> GameConfig("wiki.example/", TRUE, "", NoKeywordMap)] >>

PureCatalogs == { <<>>, CatalogA, CatalogTie, CatalogWiki }

PureTitles == { "", "ELDEN RING", "Elden", "wiki game - x", "notepad" }

\* search terms _build_url may be called with ("" also stands for None)
PureTerms == { "", "Boss", "fire staff", "big boss" }

\* the bounds a user may leave a popup window with
Geometries ==
    { DefaultPopupConfig,
      [Width |-> 640, Height |-> 480, Left |-> 0, Top |-> 20] }

\* WebViewPopup(...) and show(): both succeed, the constructor raises, or
\* show() raises
PopupOutcomes == { "ok", "ctor_raises", "show_raises" }

(***************************************************************************)
(* AppLogic: the pure parts of _handle_hotkey_press_thread_safe.           *)
(***************************************************************************)
\* MatchGame that lets the last matching entry win
MatchGame_LastWins(title, catalog) ==
    LET hits == { i \in 1..Len(catalog) :
                    Contains(Lower(catalog[i].name), Lower(title)) }
    IN IF hits = {} THEN 0
       ELSE CHOOSE i \in hits : \A j \in hits : i >= j

\* lines 96-102: the index of the first catalog entry whose lowercased name
\* occurs in the lowercased title, 0 when there is none
MatchGame(title, catalog) ==
    LET hits == { i \in 1..Len(catalog) :
                    Contains(Lower(catalog[i].name), Lower(title)) }
    IN IF hits = {} THEN 0
       ELSE CHOOSE i \in hits : \A j \in hits : i <= j

\* IsSpecialGame comparing the name as written
IsSpecialGame_CaseSensitive(name) ==
    name \in { "counter-strike 2", "valorant" }

\* line 114
IsSpecialGame(name) ==
    name # "" /\ Lower(name) \in { "counter-strike 2", "valorant" }

\* line 117: self.current_popup and self.current_popup.isVisible()
PopupVisible(ps, cur) == cur # 0 /\ ps[cur].visible

\* BuildUrl that fills the template even without a search term
BuildUrl_AlwaysTemplate(game_cfg, search_term) ==
    LET term == IF DOMAIN game_cfg.KeywordMap # {}
                   /\ Lower(search_term) \in DOMAIN game_cfg.KeywordMap
                THEN game_cfg.KeywordMap[Lower(search_term)]
                ELSE search_term
    IN IF game_cfg.SearchTemplate # ""
       THEN Replace(game_cfg.SearchTemplate, "{query}", QuotePlus(term))
       ELSE game_cfg.BaseUrl \o QuotePlus(term)

\* BuildUrl that looks the term up in the keyword map as typed
BuildUrl_NoLower(game_cfg, search_term) ==
    IF search_term # ""
    THEN LET term == IF DOMAIN game_cfg.KeywordMap # {}
                        /\ search_term \in DOMAIN game_cfg.KeywordMap
                     THEN game_cfg.KeywordMap[search_term]
                     ELSE search_term
         IN IF game_cfg.SearchTemplate # ""
            THEN Replace(game_cfg.SearchTemplate, "{query}", QuotePlus(term))
            ELSE game_cfg.BaseUrl \o QuotePlus(term)
    ELSE game_cfg.BaseUrl

\* AppLogic._build_url
BuildUrl(game_cfg, search_term) ==
    IF search_term # ""
    THEN LET term == IF DOMAIN game_cfg.KeywordMap # {}
                        /\ Lower(search_term) \in DOMAIN game_cfg.KeywordMap
                     THEN game_cfg.KeywordMap[Lower(search_term)]
                     ELSE search_term
         IN IF game_cfg.SearchTemplate # ""
            THEN Replace(game_cfg.SearchTemplate, "{query}", QuotePlus(term))
            ELSE game_cfg.BaseUrl \o QuotePlus(term)
    ELSE game_cfg.BaseUrl

\* NoMatchNote that never notifies
NoMatchNote_Silent(icon) == ""

\* lines 104-109: the notification of the no-match branch, sent when the
\* tray icon exists
NoMatchNote(icon) == IF icon THEN "no_configuration" ELSE ""

\* PromptLastTerm that hands the last URL over whatever it is
PromptLastTerm_Always(game_cfg, last) == last

\* PromptLastTerm that looks for BaseUrl at the start of the last URL only
PromptLastTerm_StartsWith(game_cfg, last) ==
    IF ~StartsWith(game_cfg.BaseUrl, last) THEN last ELSE ""

\* line 135: the last_search_term the dialog is built with
PromptLastTerm(game_cfg, last) ==
    IF ~Contains(game_cfg.BaseUrl, last) THEN last ELSE ""

(***************************************************************************)
(* The pure parts above, evaluated once over the model's inputs.           *)
(***************************************************************************)
KnownConfigs ==
    UNION { { c[i].cfg : i \in 1..Len(c) } : c \in Catalogs \cup PureCatalogs }

KnownNames ==
    UNION { { c[i].name : i \in 1..Len(c) } : c \in Catalogs \cup PureCatalogs }

KnownTerms == { Strip(t) : t \in TypedTexts } \cup PureTerms

MatchGameOf == [c \in Catalogs |-> [t \in Titles |-> MatchGame(t, c)]]

BuildUrlOf == [g \in KnownConfigs |-> [t \in KnownTerms |-> BuildUrl(g, t)]]

KnownUrls ==
    {""} \cup UNION { { BuildUrlOf[g][t] : t \in KnownTerms } : g \in KnownConfigs }

PromptLastTermOf ==
    [g \in KnownConfigs |-> [u \in KnownUrls |-> PromptLastTerm(g, u)]]

IsSpecialGameOf == [n \in KnownNames \cup {""} |-> IsSpecialGame(n)]

StripOf == [t \in TypedTexts |-> Strip(t)]

(***************************************************************************)
(* AppLogic: the prompt's outcome, the popup and its closing.              *)
(***************************************************************************)
\* PromptTarget that treats a rejected prompt as an empty accepted one
PromptTarget_RejectedOpensBase(result_code, search_term, game_cfg, last) ==
    CASE result_code = "ACCEPTED" ->
            [proceed |-> TRUE, url |-> BuildUrlOf[game_cfg][search_term],
             last |-> BuildUrlOf[game_cfg][search_term], built |-> TRUE]
      [] result_code = "OPEN_LAST" ->
            IF last # ""
            THEN [proceed |-> TRUE, url |-> last, last |-> last, built |-> FALSE]
            ELSE [proceed |-> TRUE, url |-> BuildUrlOf[game_cfg][""],
                  last |-> BuildUrlOf[game_cfg][""], built |-> TRUE]
      [] OTHER ->
            [proceed |-> TRUE, url |-> BuildUrlOf[game_cfg][""],
             last |-> BuildUrlOf[game_cfg][""], built |-> TRUE]

\* PromptTarget that builds the base URL for every OPEN_LAST
PromptTarget_OpenLastRebuilds(result_code, search_term, game_cfg, last) ==
    CASE result_code = "ACCEPTED" ->
            [proceed |-> TRUE, url |-> BuildUrlOf[game_cfg][search_term],
             last |-> BuildUrlOf[game_cfg][search_term], built |-> TRUE]
      [] result_code = "OPEN_LAST" ->
            [proceed |-> TRUE, url |-> BuildUrlOf[game_cfg][""],
             last |-> BuildUrlOf[game_cfg][""], built |-> TRUE]
      [] OTHER ->
            [proceed |-> FALSE, url |-> "", last |-> last, built |-> FALSE]

\* PromptTarget that cancels the run when the accepted term is empty
PromptTarget_EmptyCancels(result_code, search_term, game_cfg, last) ==
    CASE result_code = "ACCEPTED" /\ search_term # "" ->
            [proceed |-> TRUE, url |-> BuildUrlOf[game_cfg][search_term],
             last |-> BuildUrlOf[game_cfg][search_term], built |-> TRUE]
      [] result_code = "OPEN_LAST" ->
            IF last # ""
            THEN [proceed |-> TRUE, url |-> last, last |-> last, built |-> FALSE]
            ELSE [proceed |-> TRUE, url |-> BuildUrlOf[game_cfg][""],
                  last |-> BuildUrlOf[game_cfg][""], built |-> TRUE]
      [] OTHER ->
            [proceed |-> FALSE, url |-> "", last |-> last, built |-> FALSE]

\* PromptTarget that leaves last_search_url_str alone when a term is accepted
PromptTarget_KeepsLast(result_code, search_term, game_cfg, last) ==
    CASE result_code = "ACCEPTED" ->
            [proceed |-> TRUE, url |-> BuildUrlOf[game_cfg][search_term],
             last |-> last, built |-> TRUE]
      [] result_code = "OPEN_LAST" ->
            IF last # ""
            THEN [proceed |-> TRUE, url |-> last, last |-> last, built |-> FALSE]
            ELSE [proceed |-> TRUE, url |-> BuildUrlOf[game_cfg][""],
                  last |-> BuildUrlOf[game_cfg][""], built |-> TRUE]
      [] OTHER ->
            [proceed |-> FALSE, url |-> "", last |-> last, built |-> FALSE]

\* lines 141-158: what the run does with the dialog's outcome.
\* [proceed, url, last, built]: proceed = FALSE is the "return" of REJECTED
PromptTarget(result_code, search_term, game_cfg, last) ==
    CASE result_code = "ACCEPTED" ->
            [proceed |-> TRUE, url |-> BuildUrlOf[game_cfg][search_term],
             last |-> BuildUrlOf[game_cfg][search_term], built |-> TRUE]
      [] result_code = "OPEN_LAST" ->
            IF last # ""
            THEN [proceed |-> TRUE, url |-> last, last |-> last, built |-> FALSE]
            ELSE [proceed |-> TRUE, url |-> BuildUrlOf[game_cfg][""],
                  last |-> BuildUrlOf[game_cfg][""], built |-> TRUE]
      [] OTHER ->
            [proceed |-> FALSE, url |-> "", last |-> last, built |-> FALSE]

\* HandlePopupClosing that saves the settings without the new geometry
HandlePopupClosing_DropsGeometry(s, cur, doc, geometry, w) ==
    [settings |-> s, current |-> 0,
     disk |-> SaveSettingsFull(doc, s, w).doc,
     raised |-> SaveSettingsFull(doc, s, w).raised]

\* _handle_popup_closing, the slot of popup_closing: the geometry is put in
\* the settings, which are saved, and the reference is dropped; an OSError
\* of save_settings leaves the slot before line 222.
\* [settings, current, disk, raised]
HandlePopupClosing(s, cur, doc, geometry, w) ==
    LET s1 == [s EXCEPT !.Popup = geometry]
        sv == SaveSettingsFull(doc, s1, w)
    IN [settings |-> s1,
        current |-> IF sv.raised = "" THEN 0 ELSE cur,
        disk |-> sv.doc,
        raised |-> sv.raised]

\* WebViewPopup.closeEvent of popup i, run by the control thread, with the
\* slot when it is connected.  An exception that leaves the slot ends the
\* process (PyQt6 aborts on an exception no Python code catches), with the
\* popup as it was.  [popups, settings, current, disk, raised]
ClosePopup(ps, i, s, cur, doc, w) ==
    LET h == IF ps[i].connected
             THEN HandlePopupClosing(s, cur, doc, ps[i].geom, w)
             ELSE [settings |-> s, current |-> cur, disk |-> doc, raised |-> ""]
        c == IF h.current = 0 THEN 0
             ELSE IF h.current > i THEN h.current - 1 ELSE h.current
    IN IF h.raised # ""
       THEN [popups |-> ps, settings |-> h.settings, current |-> cur,
             disk |-> h.disk, raised |-> h.raised]
       ELSE [popups |-> RemoveAt(ps, i), settings |-> h.settings,
             current |-> c, disk |-> h.disk, raised |-> ""]

\* CloseExisting that forgets the existing popup without closing it
CloseExisting_KeepsOpen(ps, s, cur, doc, w) ==
    [popups |-> ps, settings |-> s, current |-> 0, disk |-> doc]

\* lines 162-170: an existing popup is disconnected from the slot, closed and
\* forgotten.  [popups, settings, current, disk]
CloseExisting(ps, s, cur, doc, w) ==
    IF cur # 0
    THEN LET c == ClosePopup([ps EXCEPT ![cur].connected = FALSE], cur, s, cur, doc, w)
         IN [popups |-> c.popups, settings |-> c.settings, current |-> 0,
             disk |-> c.disk]
    ELSE [popups |-> ps, settings |-> s, current |-> cur, disk |-> doc]

\* lines 174-190: the new popup with the geometry of settings.Popup.
\* [popups, current, note]
CreatePopup(ps, cur, s, url, outcome, icon) ==
    LET p == [url |-> url, geom |-> s.Popup, visible |-> outcome = "ok",
              connected |-> TRUE, closing |-> FALSE]
        note == IF outcome # "ok" /\ icon THEN "error_opening" ELSE ""
    IN IF outcome = "ctor_raises"
       THEN [popups |-> ps, current |-> cur, note |-> note]
       ELSE [popups |-> Append(ps, p), current |-> Len(ps) + 1, note |-> note]

(***************************************************************************)
(* AppLogic: the steps of the control thread and of its environment.       *)
(*                                                                         *)
(* ev records the last step: its inputs (title, the dialog's result code   *)
(* and typed text) and what it did (kind, the matched game, the            *)
(* notification, the target URL, whether _build_url ran, whether an        *)
(* existing popup was closed for the new one); for an exit, trace lists    *)
(* the steps taken, each with what it found, and w is the outcome of the   *)
(* write of the settings.  thread is the thread that ran the step, raised  *)
(* the exception that left it, registered the result of a registration of  *)
(* the hotkey, cfg the hotkey configuration the step was given, last_term  *)
(* the value the prompt that returned had been built with.                 *)
(***************************************************************************)
NoEvent(step) ==
    [step |-> step, kind |-> "", title |-> "", code |-> "", text |-> "",
     game |-> "", note |-> "", url |-> "", built |-> FALSE, replaced |-> FALSE,
     idx |-> 0, trace |-> <<>>, w |-> "", thread |-> "control",
     raised |-> "", registered |-> TRUE, cfg |-> NoConfig, last_term |-> ""]

\* the catalog entry a blocked run matched
ConfigOf(name) ==
    game_configs[CHOOSE i \in 1..Len(game_configs) : game_configs[i].name = name].cfg

hkIdle == UNCHANGED <<lock, thr, hkev>>
cfgIdle == UNCHANGED cfgVars

\* lines 160-190: the popup for target_url_str replaces the current one; e is
\* the step's record so far
OpenTarget(e, url, built) ==
    IF url = ""
    THEN /\ UNCHANGED <<popups, current_popup, settings, disk>>
         /\ ev' = [e EXCEPT !.kind = "no_url", !.built = built]
    ELSE \E outcome \in PopupOutcomes :
           \E c \in { CloseExisting(popups, settings, current_popup, disk, "ok") } :
           \E n \in { CreatePopup(c.popups, c.current, c.settings, url, outcome,
                                  tray_icon) } :
              /\ Len(c.popups) < MaxLive
              /\ popups' = n.popups
              /\ current_popup' = n.current
              /\ settings' = c.settings
              /\ disk' = c.disk
              /\ ev' = [e EXCEPT !.kind = IF outcome = "ok" THEN "opened"
                                          ELSE "open_failed",
                                 !.note = n.note, !.url = url, !.built = built,
                                 !.replaced = current_popup # 0]

\* an emission that is merged into one that already waits
EmitHotkeySignal_Coalesced(q, n) == IF q > 0 THEN q ELSE q + n

\* an emission that queues nothing
EmitHotkeySignal_Lost(q, n) == q

\* _emit_hotkey_signal on the listener thread: hotkey_pressed_signal is
\* connected to a method of AppLogic, which lives on the control thread, so
\* each emission is queued for that thread's event loop
EmitHotkeySignal(q, n) == q + n

\* the listener thread runs _on_press_internal -> _emit_hotkey_signal: one
\* queued emission of hotkey_pressed_signal per running listener; at most
\* bound emissions wait in the control thread's event queue
HotkeyFiredWithin(bound) ==
    /\ ~quit
    /\ \E i \in 1..Len(listeners) :
          /\ FiredCallbacks(hk, listeners, listeners[i].combo) > 0
          /\ pending + FiredCallbacks(hk, listeners, listeners[i].combo) <= bound
          /\ pending' = EmitHotkeySignal(pending,
                           FiredCallbacks(hk, listeners, listeners[i].combo))
    /\ ev' = [NoEvent("HotkeyFired") EXCEPT !.thread = "listener"]
    /\ UNCHANGED <<settings, game_configs, current_popup, last_search_url_str,
                   popups, stack, tray_icon, quit, disk, hk, listeners>>
    /\ hkIdle /\ cfgIdle

HotkeyFired == HotkeyFiredWithin(MaxPending)

\* _handle_hotkey_press_thread_safe, run by the event loop of the control
\* thread (the outermost one, or the one QDialog.exec() of an open prompt
\* runs), up to its return or to dialog.exec_dialog()
HandleHotkey ==
    /\ ~quit
    /\ pending > 0
    /\ pending' = pending - 1
    /\ \E title \in Titles :
         LET m == MatchGameOf[game_configs][title]
             name == IF m = 0 THEN "" ELSE game_configs[m].name
             e == [NoEvent("HandleHotkey") EXCEPT !.title = title, !.game = name]
         IN IF game_configs = <<>>
            THEN \* line 93: pystray's Icon has no showMessage; the
                 \* AttributeError leaves the slot and ends the process
                 /\ ev' = [e EXCEPT !.kind = "raised"]
                 /\ UNCHANGED <<popups, current_popup, settings, disk,
                                last_search_url_str, stack>>
            ELSE IF m = 0
            THEN /\ ev' = [e EXCEPT !.kind = "no_match",
                                    !.note = NoMatchNote(tray_icon)]
                 /\ UNCHANGED <<popups, current_popup, settings, disk,
                                last_search_url_str, stack>>
            ELSE IF IsSpecialGameOf[name] /\ PopupVisible(popups, current_popup)
            THEN /\ ev' = [e EXCEPT !.kind = "focus_existing"]
                 /\ UNCHANGED <<popups, current_popup, settings, disk,
                                last_search_url_str, stack>>
            ELSE IF ~game_configs[m].cfg.NeedsSearch
            THEN /\ last_search_url_str' = BuildUrlOf[game_configs[m].cfg][""]
                 /\ OpenTarget(e, BuildUrlOf[game_configs[m].cfg][""], TRUE)
                 /\ UNCHANGED stack
            ELSE /\ Len(stack) < MaxNest
                 /\ stack' = Append(stack,
                        [game |-> name,
                         last_term |-> PromptLastTermOf[game_configs[m].cfg]
                                                       [last_search_url_str]])
                 /\ ev' = [e EXCEPT !.kind = "prompt"]
                 /\ UNCHANGED <<popups, current_popup, settings, disk,
                                last_search_url_str>>
    /\ quit' = (game_configs = <<>>)
    /\ UNCHANGED <<game_configs, tray_icon, hk, listeners>>
    /\ hkIdle /\ cfgIdle

\* the innermost exec_dialog() returns and its run goes on to the end.  The
\* Open Last button is disabled without a last_search_term; once the
\* application quits every event loop ends with Rejected.
ResolvePrompt ==
    /\ stack # <<>>
    /\ \E result_code \in {"ACCEPTED", "OPEN_LAST", "REJECTED"}, text \in TypedTexts :
         LET top == stack[Len(stack)]
             t == PromptTarget(result_code, StripOf[text], ConfigOf(top.game),
                               last_search_url_str)
             e == [NoEvent("ResolvePrompt") EXCEPT
                     !.game = top.game, !.code = result_code,
                     !.text = IF result_code = "ACCEPTED" THEN text ELSE "",
                     !.last_term = top.last_term]
         IN /\ result_code = "OPEN_LAST" => top.last_term # ""
            /\ quit => result_code = "REJECTED"
            /\ stack' = SubSeq(stack, 1, Len(stack) - 1)
            /\ last_search_url_str' = t.last
            /\ IF t.proceed
               THEN OpenTarget(e, t.url, t.built)
               ELSE /\ ev' = [e EXCEPT !.kind = "cancelled"]
                    /\ UNCHANGED <<popups, current_popup, settings, disk>>
    /\ UNCHANGED <<game_configs, pending, tray_icon, quit, hk, listeners>>
    /\ hkIdle /\ cfgIdle

\* the user moves or resizes a shown popup
UserMovesPopup ==
    /\ ~quit
    /\ \E i \in 1..Len(popups), g \in Geometries :
         /\ popups[i].visible
         /\ popups[i].geom # g
         /\ popups' = [popups EXCEPT ![i].geom = g]
    /\ ev' = NoEvent("UserMovesPopup")
    /\ UNCHANGED <<settings, game_configs, current_popup, last_search_url_str,
                   pending, stack, tray_icon, quit, disk, hk, listeners>>
    /\ hkIdle /\ cfgIdle

\* the user closes a shown popup: WebViewPopup.closeEvent
UserClosesPopup ==
    /\ ~quit
    /\ \E i \in 1..Len(popups), w \in SaveOutcomes :
         /\ popups[i].visible
         /\ (w = "dir_error") => DirMayFail(disk)
         /\ \E c \in { ClosePopup(popups, i, settings, current_popup, disk, w) } :
               /\ popups' = c.popups
               /\ settings' = c.settings
               /\ current_popup' = c.current
               /\ disk' = c.disk
               /\ quit' = (c.raised # "")
               /\ ev' = [NoEvent("UserClosesPopup") EXCEPT
                           !.idx = i, !.w = w, !.raised = c.raised]
    /\ UNCHANGED <<game_configs, last_search_url_str, pending, stack, tray_icon,
                   hk, listeners>>
    /\ hkIdle /\ cfgIdle

\* a hotkey the settings window produces: a key of the combo box and the
\* checked ones of the modifier boxes, in the order of the boxes
SelectableHotkeys ==
    { [Key |-> "G", Modifiers |-> <<"Shift", "Alt">>] }

\* HandleSaveHotkey that keeps the previous hotkey in the settings when the
\* new one cannot be registered
HandleSaveHotkey_KeepsOld(s, h, ls, new_hotkey_config, platform, icon) ==
    LET r == ReregisterHotkeys(h, ls, new_hotkey_config, AppCallback, platform)
    IN [settings |-> IF r.ret THEN [s EXCEPT !.Hotkey = new_hotkey_config] ELSE s,
        hk |-> r.hk, ls |-> r.ls, ret |-> r.ret,
        note |-> IF ~icon THEN ""
                 ELSE IF r.ret THEN "Hotkey updated successfully."
                 ELSE "Failed to update hotkey."]

\* _handle_save_hotkey: the in-memory settings take the new hotkey and the
\* hotkey is registered anew; the tray icon, if there is one, tells the
\* outcome.  [settings, hk, ls, ret, note]
HandleSaveHotkey(s, h, ls, new_hotkey_config, platform, icon) ==
    LET r == ReregisterHotkeys(h, ls, new_hotkey_config, AppCallback, platform)
    IN [settings |-> [s EXCEPT !.Hotkey = new_hotkey_config],
        hk |-> r.hk, ls |-> r.ls, ret |-> r.ret,
        note |-> IF ~icon THEN ""
                 ELSE IF r.ret THEN "Hotkey updated successfully."
                 ELSE "Failed to update hotkey."]

\* MainWindow._save_settings_and_apply: the settings are loaded from the
\* user document, given the new hotkey and saved, then the callback runs; an
\* exception of the load or of the save ends in the error box, without the
\* callback.  w is the outcome of the writes.
\* [disk, settings, hk, ls, kind, ret, note]
SaveSettingsAndApply(doc, default, s, h, ls, new_hotkey_config, w, platform, icon) ==
    LET l == LoadSettings(doc, default, "ok", w)
        current_settings == [l.ret EXCEPT !.Hotkey = new_hotkey_config]
        sv == SaveSettingsFull(l.doc, current_settings, w)
        cb == HandleSaveHotkey(s, h, ls, new_hotkey_config, platform, icon)
    IN IF l.raised # ""
       THEN [disk |-> l.doc, settings |-> s, hk |-> h, ls |-> ls,
             kind |-> "save_failed", ret |-> TRUE, note |-> ""]
       ELSE IF sv.raised # ""
       THEN [disk |-> sv.doc, settings |-> s, hk |-> h, ls |-> ls,
             kind |-> "save_failed", ret |-> TRUE, note |-> ""]
       ELSE [disk |-> sv.doc, settings |-> cb.settings, hk |-> cb.hk,
             ls |-> cb.ls, kind |-> "hotkey_saved", ret |-> cb.ret,
             note |-> cb.note]

\* the user picks a hotkey in the settings window and presses Save.  The
\* window is opened from the tray icon's menu only, by a callback that runs
\* on the tray thread, so which thread runs its handlers is not defined; the
\* prompt, while open, is modal and keeps the button out of reach
SaveHotkey ==
    /\ ~quit
    /\ tray_icon
    /\ stack = <<>>
    /\ \E new_hotkey_config \in SelectableHotkeys, w \in SaveOutcomes,
          platform \in {"ok", "start_raises"}, th \in {"control", "tray"} :
         /\ (w = "dir_error") => DirMayFail(disk)
         /\ \E r \in { SaveSettingsAndApply(disk, default_doc, settings, hk,
                                              listeners, new_hotkey_config, w,
                                              platform, tray_icon) } :
               /\ disk' = r.disk
               /\ settings' = r.settings
               /\ hk' = r.hk
               /\ listeners' = r.ls
               /\ ev' = [NoEvent("SaveHotkey") EXCEPT
                           !.kind = r.kind, !.note = r.note, !.w = w,
                           !.thread = th, !.registered = r.ret,
                           !.cfg = new_hotkey_config]
    /\ UNCHANGED <<game_configs, current_popup, last_search_url_str, popups,
                   pending, stack, tray_icon, quit>>
    /\ hkIdle /\ cfgIdle

\* the user directory of the settings is removed while the application runs
ConfigDirRemoved ==
    /\ ~quit
    /\ disk.kind # "missing"
    /\ disk' = MissingDoc
    /\ ev' = [NoEvent("ConfigDirRemoved") EXCEPT !.thread = "environment"]
    /\ UNCHANGED <<settings, game_configs, current_popup, last_search_url_str,
                   popups, pending, stack, tray_icon, quit, hk, listeners>>
    /\ hkIdle /\ cfgIdle

\* what a step of exit_application finds: is a popup on screen, is a
\* listener running
Observed(st, op) ==
    [op |-> op,
     popup_open |-> PopupVisible(st.popups, st.current),
     listening |-> st.hk.listener # 0]

\* WebViewPopup.closeEvent of popup i run by another thread than the
\* control thread, on which AppLogic lives: the window is closed and the
\* emission of popup_closing to a connected slot is queued for the control
\* thread (Qt's automatic connection)
ClosePopupOffThread(ps, i) ==
    [ps EXCEPT ![i].visible = FALSE, ![i].closing = ps[i].connected]

\* what the user answers in the confirmation box of MainWindow.closeEvent;
\* "none" when no closeEvent runs: there is no settings window, or
\* QWidget.close() is called again while the window is already closing
ConfirmAnswers == { "none", "exit", "minimize", "cancel" }

\* exit_application, lines 267-281: its statements in their order
ExitOrder ==
    << "close_popup", "stop_listener", "stop_tray", "engine_shutdown",
       "close_window", "quit" >>

RECURSIVE RunExit(_, _, _, _, _)
RECURSIVE ExitStep(_, _, _, _)

\* one statement of exit_application, run by thread th, on the state st =
\* [popups, settings, current, disk, hk, ls, trace, raised, answer]: lines
\* 267-269 close a popup that is on screen (on the control thread its
\* closeEvent runs _handle_popup_closing), line 272 stops the listener, line
\* 273 the tray icon, line 274 the web engine manager, lines 276-278 close
\* the settings window, whose closeEvent asks the user and on Exit calls
\* exit_application again inside a try/except (main_window.py 199-205), and
\* line 281 quits
ExitStep(st, op, w, th) ==
    CASE op = "close_popup" ->
           IF PopupVisible(st.popups, st.current)
           THEN IF th = "control"
                THEN LET c == ClosePopup(st.popups, st.current, st.settings,
                                         st.current, st.disk, w)
                     IN [st EXCEPT !.popups = c.popups, !.settings = c.settings,
                                   !.current = c.current, !.disk = c.disk,
                                   !.raised = c.raised,
                                   !.trace = Append(@, Observed(st, op))]
                ELSE [st EXCEPT !.popups = ClosePopupOffThread(@, st.current),
                                !.trace = Append(@, Observed(st, op))]
           ELSE st
      [] op = "stop_listener" ->
           LET u == UnregisterGlobalHotkey(st.hk, st.ls)
           IN [st EXCEPT !.hk = u.hk, !.ls = u.ls,
                         !.trace = Append(@, Observed(st, op))]
      [] op = "close_window" ->
           IF st.answer = "none" THEN st
           ELSE IF st.answer = "exit"
           THEN LET n == RunExit([st EXCEPT
                                    !.answer = "none",
                                    !.trace = Append(@, Observed(st, op))],
                                 ExitOrder, 1, w, th)
                IN [n EXCEPT !.raised = ""]
           ELSE [st EXCEPT !.trace = Append(@, Observed(st, op))]
      [] OTHER -> [st EXCEPT !.trace = Append(@, Observed(st, op))]

\* the statements of order from the i-th on, run on st by thread th; no
\* statement runs once an exception has ended the process
RunExit(st, order, i, w, th) ==
    IF i > Len(order) \/ st.raised # "" THEN st
    ELSE RunExit(ExitStep(st, order[i], w, th), order, i + 1, w, th)

\* exit_application run by thread th, w being the outcome of the save and
\* answer the user's answer if the settings window asks; the run ends the
\* application, by line 281 or by the exception that left a slot
ExitApplicationOn(th, w, answer) ==
    \E st \in { RunExit([popups |-> popups, settings |-> settings,
                          current |-> current_popup, disk |-> disk,
                          hk |-> hk, ls |-> listeners, trace |-> <<>>,
                          raised |-> "", answer |-> answer],
                         ExitOrder, 1, w, th) } :
       /\ popups' = st.popups
       /\ settings' = st.settings
       /\ current_popup' = st.current
       /\ disk' = st.disk
       /\ hk' = st.hk
       /\ listeners' = st.ls
       /\ ev' = [NoEvent("ExitApplication") EXCEPT
                   !.trace = st.trace, !.w = w, !.thread = th,
                   !.raised = st.raised, !.text = answer]
       /\ quit' = TRUE
       /\ UNCHANGED <<game_configs, last_search_url_str, pending, stack,
                      tray_icon>>
       /\ hkIdle /\ cfgIdle

\* AppLogic.exit_application called on the control thread: the Exit button
\* of the confirmation box of the settings window's closeEvent; the window
\* is closing, so that line 278 runs no second closeEvent
ExitApplication ==
    /\ ~quit
    /\ tray_icon
    /\ \E w \in SaveOutcomes :
         /\ (w = "dir_error") => DirMayFail(disk)
         /\ ExitApplicationOn("control", w, "none")

\* TrayManager._on_exit: pystray runs the menu's callbacks on the thread of
\* run_detached(), and on_exit_callback is exit_application itself; line 278
\* closes the settings window if one was opened, and its closeEvent asks
TrayExit ==
    /\ ~quit
    /\ tray_icon
    /\ \E answer \in ConfirmAnswers :
         ExitApplicationOn("tray", "ok", answer)

\* the control thread's event loop delivers a queued emission of
\* popup_closing to _handle_popup_closing
DeliverPopupClosing ==
    /\ \E i \in 1..Len(popups), w \in SaveOutcomes :
         /\ popups[i].closing
         /\ (w = "dir_error") => DirMayFail(disk)
         /\ \E h \in { HandlePopupClosing(settings, current_popup, disk,
                                           popups[i].geom, w) } :
               /\ settings' = h.settings
               /\ current_popup' = h.current
               /\ disk' = h.disk
               /\ popups' = IF h.raised = "" THEN RemoveAt(popups, i)
                            ELSE [popups EXCEPT ![i].closing = FALSE]
               /\ ev' = [NoEvent("DeliverPopupClosing") EXCEPT
                           !.idx = i, !.w = w, !.raised = h.raised]
    /\ UNCHANGED <<game_configs, last_search_url_str, pending, stack, tray_icon,
                   quit, hk, listeners>>
    /\ hkIdle /\ cfgIdle

\* AppLogic.__init__ and start(): settings and catalog are loaded and the
\* hotkey of the settings is registered
AppInit ==
    /\ settings = DefaultSettings
    /\ disk = SettingsDoc(DefaultSettings)
    /\ game_configs \in Catalogs
    /\ current_popup = 0
    /\ last_search_url_str = ""
    /\ popups = <<>>
    /\ pending = 0
    /\ stack = <<>>
    /\ tray_icon \in BOOLEAN
    /\ quit = FALSE
    /\ \E platform \in {"ok", "start_raises"} :
         LET r == RegisterGlobalHotkey(NewHotkeyManager(AppCallback), <<>>,
                                       DefaultHotkeyConfig, AppCallback, platform)
         IN /\ hk = r.hk /\ listeners = r.ls
            /\ ev = [NoEvent("start") EXCEPT !.registered = r.ret]

\* what settings.json may hold when the application starts
StartDocs ==
    { SettingsDoc(DefaultSettings), UndecodableDoc, JsonDoc(JList(<<>>)) }

\* start(), lines 58-75, when load_settings (line 63) raises: the handler of
\* line 72 calls exit_application and start() returns; nothing is registered
\* and the tray icon is never run (lines 66-70 are skipped).  main() has not
\* yet called app.exec() (main.py 92-99), and QCoreApplication.quit() called
\* before the event loop is entered has no effect: the application goes on
\* to run its event loop
AppStartFailed ==
    /\ \E doc \in StartDocs :
         /\ LoadSettings(doc, MissingDoc, "ok", "ok").raised # ""
         /\ disk = doc
         /\ ev = [NoEvent("start") EXCEPT
                    !.kind = "start_failed",
                    !.raised = LoadSettings(doc, MissingDoc, "ok", "ok").raised,
                    !.registered = FALSE,
                    !.trace = RunExit([popups |-> <<>>,
                                       settings |-> DefaultSettings,
                                       current |-> 0, disk |-> doc,
                                       hk |-> NewHotkeyManager(AppCallback),
                                       ls |-> <<>>, trace |-> <<>>,
                                       raised |-> "", answer |-> "none"],
                                      ExitOrder, 1, "ok", "control").trace]
    /\ settings = DefaultSettings
    /\ game_configs = <<>>
    /\ current_popup = 0
    /\ last_search_url_str = ""
    /\ popups = <<>>
    /\ pending = 0
    /\ stack = <<>>
    /\ tray_icon = FALSE
    /\ quit = FALSE
    /\ hk = NewHotkeyManager(AppCallback)
    /\ listeners = <<>>

\* the application around a subsystem, at rest
AppIdleInit ==
    /\ settings = DefaultSettings
    /\ disk = SettingsDoc(DefaultSettings)
    /\ game_configs = <<>>
    /\ current_popup = 0
    /\ last_search_url_str = ""
    /\ popups = <<>>
    /\ pending = 0
    /\ stack = <<>>
    /\ tray_icon = TRUE
    /\ quit = FALSE
    /\ ev = NoEvent("start")

\* no caller is inside the manager
HkCallersIdle ==
    /\ lock = 0
    /\ thr = [t \in Threads |-> IdleThread]
    /\ hkev = NoHkEvent

\* a manager nobody has registered with
HkIdleInit ==
    /\ hk = NewHotkeyManager(AppCallback)
    /\ listeners = <<>>
    /\ HkCallersIdle

CfgIdleInit ==
    /\ default_doc = MissingDoc
    /\ games_doc = MissingDoc
    /\ cfgev = NoCfgEvent

Init == (AppInit \/ AppStartFailed) /\ HkCallersIdle /\ CfgIdleInit

Next ==
    \/ HotkeyFired
    \/ HandleHotkey
    \/ ResolvePrompt
    \/ UserMovesPopup
    \/ UserClosesPopup
    \/ ConfigDirRemoved
    \/ ExitApplication
    \/ TrayExit
    \/ DeliverPopupClosing
    \/ SaveHotkey

Spec == Init /\ [][Next]_vars

(***************************************************************************)
(* HotkeyManager: the steps of its callers and of the listener thread      *)
(* (specification SpecHotkey).                                             *)
(***************************************************************************)
appIdle == UNCHANGED appVars

\* a thread calls register_global_hotkey, unregister_global_hotkey
\* (also as stop_listener_if_running) or reregister_hotkeys
Call(t) ==
    /\ thr[t].pc = "idle"
    /\ \E op \in {"register", "unregister", "reregister"},
          cfg \in HotkeyConfigs, cb \in Callbacks :
         /\ op = "unregister" => (cfg = NoConfig /\ cb = NoCallback)
         /\ thr' = [thr EXCEPT ![t] =
                      [pc |-> IF op = "register" THEN "reg_wait" ELSE "unreg_wait",
                       op |-> op, cfg |-> cfg, cb |-> cb]]
    /\ hkev' = NoHkEvent
    /\ UNCHANGED <<hk, listeners, lock>>
    /\ appIdle /\ cfgIdle

\* "with self._lock:" of either method
Acquire(t) ==
    /\ thr[t].pc \in {"unreg_wait", "reg_wait"}
    /\ LockFree(lock)
    /\ lock' = t
    /\ thr' = [thr EXCEPT ![t].pc = IF thr[t].pc = "unreg_wait" THEN "unreg_cs"
                                    ELSE "reg_cs"]
    /\ hkev' = NoHkEvent
    /\ UNCHANGED <<hk, listeners>>
    /\ appIdle /\ cfgIdle

\* unregister_global_hotkey, lines 149-151; inside reregister_hotkeys the
\* caller goes on to register_global_hotkey with the lock released
UnregisterBody(t) ==
    /\ thr[t].pc = "unreg_cs"
    /\ LET u == UnregisterGlobalHotkey(hk, listeners)
       IN hk' = u.hk /\ listeners' = u.ls
    /\ lock' = 0
    /\ IF thr[t].op = "unregister"
       THEN /\ thr' = [thr EXCEPT ![t] = IdleThread]
            /\ hkev' = Returned("unregister", t, TRUE, NoConfig, NoCallback)
       ELSE /\ thr' = [thr EXCEPT ![t].pc = "reg_wait"]
            /\ hkev' = NoHkEvent
    /\ appIdle /\ cfgIdle

\* register_global_hotkey, lines 94-110
RegisterBody(t) ==
    /\ thr[t].pc = "reg_cs"
    /\ LET p == RegisterPrepare(hk, listeners, thr[t].cfg, thr[t].cb)
       IN /\ hk' = p.hk
          /\ listeners' = p.ls
          /\ IF p.go
             THEN /\ thr' = [thr EXCEPT ![t].pc = "reg_start"]
                  /\ hkev' = NoHkEvent
                  /\ lock' = lock
             ELSE /\ thr' = [thr EXCEPT ![t] = IdleThread]
                  /\ hkev' = Returned(thr[t].op, t, FALSE, thr[t].cfg, thr[t].cb)
                  /\ lock' = 0
    /\ appIdle /\ cfgIdle

\* register_global_hotkey, lines 112-128, and the return
RegisterFinish(t) ==
    /\ thr[t].pc = "reg_start"
    /\ Len(listeners) < MaxListeners
    /\ \E platform \in Platforms :
         LET r == RegisterStart(hk, listeners, thr[t].cfg, platform)
         IN /\ hk' = r.hk
            /\ listeners' = r.ls
            /\ hkev' = Returned(thr[t].op, t, r.ret, thr[t].cfg, thr[t].cb)
    /\ thr' = [thr EXCEPT ![t] = IdleThread]
    /\ lock' = 0
    /\ appIdle /\ cfgIdle

\* the user presses a key combination: every running listener bound to it
\* runs _on_press_internal on its own thread, without the lock
Fire ==
    /\ \E combo \in Combos :
         hkev' = [NoHkEvent EXCEPT !.op = "fire", !.combo = combo,
                                   !.fired = FiredCallbacks(hk, listeners, combo)]
    /\ UNCHANGED <<hk, listeners, lock, thr>>
    /\ appIdle /\ cfgIdle

\* the manager as AppLogic.__init__ or a test constructs it
HkInit ==
    /\ \E cb \in Callbacks : hk = NewHotkeyManager(cb)
    /\ listeners = <<>>
    /\ HkCallersIdle

InitHotkey == AppIdleInit /\ HkInit /\ CfgIdleInit

NextHotkey ==
    \/ \E t \in Threads : Call(t)
    \/ \E t \in Threads : Acquire(t)
    \/ \E t \in Threads : UnregisterBody(t)
    \/ \E t \in Threads : RegisterBody(t)
    \/ \E t \in Threads : RegisterFinish(t)
    \/ Fire

SpecHotkey == InitHotkey /\ [][NextHotkey]_vars

(***************************************************************************)
(* ConfigManager: the documents it may find and the calls of its loaders   *)
(* (specification SpecConfig).                                             *)
(***************************************************************************)
\* settings a caller may save
CustomSettings ==
    [Hotkey |-> [Key |-> "G", Modifiers |-> <<"Alt", "Shift">>],
     Popup  |-> [Width |-> 640, Height |-> 480, Left |-> 0, Top |-> 20]]

SettingsValues == { DefaultSettings, CustomSettings }

\* a hand-written document: no Modifiers, a partial Popup, one more key
HandWritten ==
    JObj(<< <<"Hotkey", JObj(<< <<"Key", JStr("F2")>> >>)>>,
            <<"Popup",  JObj(<< <<"Width", JNum(640)>> >>)>>,
            <<"Theme",  JStr("dark")>> >>)

\* a complete document with its members in another order
Reordered ==
    JObj(<< <<"Popup",
              JObj(<< <<"Top",    JNum(20)>>,
                      <<"Left",   JNum(0)>>,
                      <<"Height", JNum(480)>>,
                      <<"Width",  JNum(640)>> >>)>>,
            <<"Hotkey",
              JObj(<< <<"Modifiers", JList(<< JStr("Alt") >>)>>,
                      <<"Key", JStr("G")>> >>)>> >>)

\* what settings.json may hold as JSON
UserValues ==
    { JList(<<>>), JNull, JObj(<<>>),
      ModelDumpJson(DefaultSettings),
      HandWritten, Reordered,
      \* Key of the wrong type
      JObj(<< <<"Hotkey", JObj(<< <<"Key", JNum(5)>> >>)>>,
              <<"Popup",  JObj(<<>>)>> >>),
      \* Hotkey is not a mapping
      JObj(<< <<"Hotkey", JStr("F1")>>, <<"Popup", JObj(<<>>)>> >>) }

UserDocs ==
    { MissingDoc, GarbageDoc, UndecodableDoc } \cup { JsonDoc(j) : j \in UserValues }

\* what the shipped data_defaults/settings.json may be
DefaultDocs ==
    { MissingDoc, GarbageDoc, SettingsDoc(DefaultSettings), JsonDoc(HandWritten),
      JsonDoc(JList(<<>>)) }

\* entries a games.json may hold: two valid ones, one without BaseUrl, one
\* whose value is not a mapping
GameEntries ==
    { <<"Valorant",
        JObj(<< <<"BaseUrl", JStr("https://w.ex/valorant")>>,
                <<"NeedsSearch", JBool(FALSE)>> >>)>>,
      <<"Elden Ring",
        JObj(<< <<"BaseUrl", JStr("https://w.ex/er/")>>,
                <<"SearchTemplate", JStr("https://w.ex/s?q={query}")>>,
                <<"KeywordMap", JObj(<< <<"boss", JStr("Bosses")>> >>)>> >>)>>,
      <<"Broken", JObj(<< <<"NeedsSearch", JBool(TRUE)>> >>)>>,
      <<"Flat",   JStr("https://w.ex/flat")>> }

\* the objects of at most MaxEntries distinct entries, in every order
GamesObjects ==
    { JObj(m) : m \in { f \in UNION { [1..n -> GameEntries] : n \in 0..MaxEntries } :
                          \A i, j \in DOMAIN f : (i # j) => f[i] # f[j] } }

GamesDocs ==
    { MissingDoc, GarbageDoc, UndecodableDoc, JsonDoc(JList(<<>>)) }
      \cup { JsonDoc(j) : j \in GamesObjects }

\* the shipped games.json of the model
ShippedGames ==
    JsonDoc(JObj(<<
      <<"Valorant",
        JObj(<< <<"BaseUrl", JStr("https://w.ex/valorant")>>,
                <<"NeedsSearch", JBool(FALSE)>> >>)>>,
      <<"Elden Ring",
        JObj(<< <<"BaseUrl", JStr("https://w.ex/er/")>>,
                <<"SearchTemplate", JStr("https://w.ex/s?q={query}")>>,
                <<"KeywordMap", JObj(<< <<"boss", JStr("Bosses")>> >>)>> >>)>> >>))

\* a caller runs load_settings
LoadSettingsCall ==
    /\ \E c \in CopyOutcomes, w \in SaveOutcomes :
         LET r == LoadSettings(disk, default_doc, c, w)
         IN /\ (w = "dir_error")
                 => /\ DirMayFail(disk)
                    /\ default_doc.kind = "missing" \/ c = "io_error"
            /\ disk' = r.doc
            /\ cfgev' = [NoCfgEvent EXCEPT !.op = "load_settings", !.doc = disk,
                                           !.raised = r.raised,
                                           !.settings = r.ret,
                                           !.c = c, !.w = w]
    /\ UNCHANGED <<default_doc, games_doc>>
    /\ UNCHANGED <<settings, game_configs, current_popup, last_search_url_str,
                   popups, pending, stack, tray_icon, quit, ev>>
    /\ UNCHANGED hkVars

\* a caller runs load_game_configs
LoadGameConfigsCall ==
    /\ LET r == LoadGameConfigs(games_doc)
       IN cfgev' = [NoCfgEvent EXCEPT !.op = "load_game_configs",
                                      !.raised = r.raised, !.catalog = r.ret]
    /\ UNCHANGED <<default_doc, games_doc>>
    /\ UNCHANGED appVars
    /\ UNCHANGED hkVars

\* a caller runs save_settings
SaveSettingsCall ==
    /\ \E s \in SettingsValues, w \in SaveOutcomes :
         LET r == SaveSettingsFull(disk, s, w)
         IN /\ (w = "dir_error") => DirMayFail(disk)
            /\ disk' = r.doc
            /\ cfgev' = [NoCfgEvent EXCEPT !.op = "save_settings", !.doc = disk,
                                           !.raised = r.raised,
                                           !.settings = s, !.w = w]
    /\ UNCHANGED <<default_doc, games_doc>>
    /\ UNCHANGED <<settings, game_configs, current_popup, last_search_url_str,
                   popups, pending, stack, tray_icon, quit, ev>>
    /\ UNCHANGED hkVars

\* a caller saves the settings load_settings has just returned to it
SaveLoadedCall ==
    /\ cfgev.op = "load_settings" /\ cfgev.raised = ""
    /\ \E w \in SaveOutcomes :
         LET r == SaveSettingsFull(disk, cfgev.settings, w)
         IN /\ (w = "dir_error") => DirMayFail(disk)
            /\ disk' = r.doc
            /\ cfgev' = [NoCfgEvent EXCEPT !.op = "save_loaded", !.doc = disk,
                                           !.raised = r.raised,
                                           !.settings = cfgev.settings,
                                           !.w = w]
    /\ UNCHANGED <<default_doc, games_doc>>
    /\ UNCHANGED <<settings, game_configs, current_popup, last_search_url_str,
                   popups, pending, stack, tray_icon, quit, ev>>
    /\ UNCHANGED hkVars

\* the user, or a crash, leaves settings.json with other content or removes it
EditUserDocument ==
    /\ disk' \in UserDocs \ {disk}
    /\ cfgev' = NoCfgEvent
    /\ UNCHANGED <<default_doc, games_doc>>
    /\ UNCHANGED <<settings, game_configs, current_popup, last_search_url_str,
                   popups, pending, stack, tray_icon, quit, ev>>
    /\ UNCHANGED hkVars

\* games.json is replaced
EditGamesDocument ==
    /\ games_doc' \in GamesDocs \ {games_doc}
    /\ cfgev' = NoCfgEvent
    /\ UNCHANGED default_doc
    /\ UNCHANGED appVars
    /\ UNCHANGED hkVars

\* the shipped documents
CfgInit ==
    /\ default_doc \in DefaultDocs
    /\ games_doc = ShippedGames
    /\ cfgev = NoCfgEvent

InitConfig == AppIdleInit /\ HkIdleInit /\ CfgInit

NextConfig ==
    \/ LoadSettingsCall
    \/ LoadGameConfigsCall
    \/ SaveSettingsCall
    \/ SaveLoadedCall
    \/ EditUserDocument
    \/ EditGamesDocument

SpecConfig == InitConfig /\ [][NextConfig]_vars

(***************************************************************************)
(* The match loop, _build_url and the handling of the prompt's outcome     *)
(* called on their own (specification SpecPure): game_configs is the       *)
(* catalog, last_search_url_str the last URL, ev the call and its result.  *)
(***************************************************************************)
\* keys and modifier lists a configuration may hold: function keys and a
\* near miss, a named key, a letter and a digit; the four known modifiers
\* in both orders, an unknown one and a known one in the wrong case
PureKeys == { "F1", "F12", "F13", "Space", "G", "7" }
PureModifiers ==
    { <<>>, <<"Ctrl">>, <<"Win">>, <<"Hyper">>, <<"ctrl">>,
      <<"Ctrl", "Shift">>, <<"Shift", "Ctrl">>, <<"Alt", "Shift">>,
      <<"Alt", "Hyper">>, <<"Hyper", "Win">> }
PureHotkeys ==
    { [Key |-> k, Modifiers |-> ms] : k \in PureKeys, ms \in PureModifiers }

pureIdle ==
    /\ UNCHANGED <<settings, current_popup, popups, pending, stack, tray_icon,
                   quit, disk, game_configs>>
    /\ UNCHANGED hkVars
    /\ UNCHANGED cfgVars

\* lines 96-102 for one title
MatchCall ==
    /\ \E title \in PureTitles :
         LET m == MatchGame(title, game_configs)
         IN ev' = [NoEvent("Match") EXCEPT
                     !.title = title, !.idx = m,
                     !.game = IF m = 0 THEN "" ELSE game_configs[m].name]
    /\ UNCHANGED last_search_url_str
    /\ pureIdle

\* _build_url(game_cfg, search_term) for one entry and one term
BuildCall ==
    /\ \E i \in 1..Len(game_configs), term \in PureTerms :
         ev' = [NoEvent("Build") EXCEPT
                  !.idx = i, !.game = game_configs[i].name, !.text = term,
                  !.url = BuildUrl(game_configs[i].cfg, term), !.built = TRUE]
    /\ UNCHANGED last_search_url_str
    /\ pureIdle

\* lines 141-158 for one entry and one outcome of the dialog
PromptTargetCall ==
    /\ \E i \in 1..Len(game_configs),
          code \in {"ACCEPTED", "OPEN_LAST", "REJECTED"},
          term \in KnownTerms :
         LET r == PromptTarget(code, term, game_configs[i].cfg, last_search_url_str)
         IN /\ code # "ACCEPTED" => term = ""
            /\ ev' = [NoEvent("PromptTarget") EXCEPT
                        !.idx = i, !.game = game_configs[i].name, !.code = code,
                        !.text = term, !.url = r.url, !.built = r.built,
                        !.kind = IF r.proceed THEN "target" ELSE "cancelled"]
            /\ last_search_url_str' = r.last
    /\ pureIdle

\* line 135 for one entry that needs a search: the last_search_term the
\* dialog is built with
PromptLastTermCall ==
    /\ \E i \in 1..Len(game_configs) :
         /\ game_configs[i].cfg.NeedsSearch
         /\ ev' = [NoEvent("PromptLastTerm") EXCEPT
                     !.idx = i, !.game = game_configs[i].name,
                     !.url = last_search_url_str,
                     !.text = PromptLastTermOf[game_configs[i].cfg]
                                              [last_search_url_str]]
    /\ UNCHANGED last_search_url_str
    /\ pureIdle

\* _parse_hotkey for one configuration
ParseCall ==
    /\ \E hotkey_config \in PureHotkeys :
         ev' = [NoEvent("Parse") EXCEPT
                  !.cfg = hotkey_config, !.text = ParseHotkey(hotkey_config)]
    /\ UNCHANGED last_search_url_str
    /\ pureIdle

InitPure ==
    /\ settings = DefaultSettings
    /\ disk = SettingsDoc(DefaultSettings)
    /\ game_configs \in PureCatalogs
    /\ current_popup = 0
    /\ last_search_url_str = ""
    /\ popups = <<>>
    /\ pending = 0
    /\ stack = <<>>
    /\ tray_icon = TRUE
    /\ quit = FALSE
    /\ ev = NoEvent("start")
    /\ HkIdleInit
    /\ CfgIdleInit

NextPure ==
    \/ MatchCall
    \/ BuildCall
    \/ PromptTargetCall
    \/ ParseCall
    \/ PromptLastTermCall

SpecPure == InitPure /\ [][NextPure]_vars


(***************************************************************************)
(* The queue of hotkey firings (specification SpecLive): the listener      *)
(* firing with up to MaxQueued emissions waiting, the pipeline runs, the   *)
(* user closing popups and the ways the application ends, with the control *)
(* thread's event loop delivering every posted event in its turn.          *)
(***************************************************************************)
HotkeyQueued == HotkeyFiredWithin(MaxQueued)

NextLive ==
    \/ HotkeyQueued
    \/ HandleHotkey
    \/ ResolvePrompt
    \/ UserClosesPopup
    \/ ExitApplication
    \/ TrayExit

\* QApplication.exec(): a queued call of _handle_hotkey_press_thread_safe
\* is delivered as long as the application runs
SpecLive == Init /\ [][NextLive]_vars /\ WF_vars(HandleHotkey)
(***************************************************************************)
(* Properties of the pipeline and the popup (specification Spec).          *)
(***************************************************************************)
\* C1: in every reachable state, after any sequence of pipeline runs, user
\* closes of the popup and exit requests, at most one popup is live (created
\* and not yet closed).
C1_AtMostOneLivePopup == Len(popups) <= 1

\* a run has just closed the active popup and opened its successor
C1_Witness == ev.kind = "opened" /\ ev.replaced /\ Len(popups) = 1

\* C2, as claimed: when a run replaces the active popup by a new one,
\* settings.Popup holds the old popup's final geometry once the new popup is
\* open.
C2_GeometryCapturedBeforeReplace ==
    [][ (ev'.kind = "opened" /\ ev'.replaced)
          => settings'.Popup = popups[current_popup].geom ]_vars

\* C3, as claimed: no run of _handle_hotkey_press_thread_safe starts while
\* another run is blocked in its prompt.
C3_NoRunWhilePromptOpen ==
    ev.step = "HandleHotkey"
      => Len(stack) = (IF ev.kind = "prompt" THEN 1 ELSE 0)

\* C8: when the prompt's outcome is Rejected, the run ends with the popups,
\* the active popup, the settings (in memory and on disk) and
\* last_search_url_str all as they were.
C8_CancelledChangesNothing ==
    [][ (ev'.step = "ResolvePrompt" /\ ev'.code = "REJECTED")
          => /\ ev'.kind = "cancelled"
             /\ UNCHANGED <<popups, current_popup, settings, disk,
                            last_search_url_str>> ]_vars

\* a prompt was rejected while a popup was open and a last URL was known
C8_Witness ==
    /\ ev.step = "ResolvePrompt" /\ ev.code = "REJECTED"
    /\ current_popup # 0 /\ last_search_url_str # ""

\* no name of the catalog occurs in the title (compared in lower case)
NoEntryMatches(title) ==
    \A i \in 1..Len(game_configs) :
        ~Contains(Lower(game_configs[i].name), Lower(title))

\* C9, as claimed: a run whose title matches no catalog entry opens no popup,
\* emits the "no configuration" notification and leaves last_search_url_str
\* and the active popup unchanged.
C9_NoMatchNotifies ==
    [][ (ev'.step = "HandleHotkey" /\ NoEntryMatches(ev'.title))
          => /\ ev'.note = "no_configuration"
             /\ UNCHANGED <<popups, current_popup, last_search_url_str>> ]_vars

\* C9, amended: with a non-empty catalog, a run whose title matches no entry
\* opens no popup, leaves the popups, the active popup, the settings and
\* last_search_url_str unchanged, and emits the "no configuration"
\* notification exactly when the tray icon exists.
C9_NoMatchNotifiesIfIcon ==
    [][ (ev'.step = "HandleHotkey" /\ game_configs # <<>>
         /\ NoEntryMatches(ev'.title))
          => /\ ev'.kind = "no_match"
             /\ (ev'.note = "no_configuration") <=> tray_icon
             /\ UNCHANGED <<popups, current_popup, settings, disk, stack,
                            last_search_url_str>> ]_vars

\* a run found no entry for a non-empty title while a popup was open
C9_Witness ==
    /\ ev.step = "HandleHotkey" /\ ev.kind = "no_match" /\ ev.title # ""
    /\ ev.note = "no_configuration" /\ current_popup # 0

\* C10: when the matched key is "counter-strike 2" or "valorant" in any
\* letter case and the active popup is visible, the run only focuses it: no
\* prompt, no URL built, no popup opened or closed, last_search_url_str and
\* the settings unchanged.
C10_SpecialGameShortCircuits ==
    [][ (/\ ev'.step = "HandleHotkey"
         /\ Lower(ev'.game) \in { "counter-strike 2", "valorant" }
         /\ current_popup # 0 /\ popups[current_popup].visible)
          => /\ ev'.kind = "focus_existing"
             /\ ~ev'.built
             /\ UNCHANGED <<popups, current_popup, settings, disk, stack,
                            last_search_url_str>> ]_vars

\* the short circuit was taken for a key written in capitals
C10_Witness ==
    /\ ev.kind = "focus_existing" /\ ev.game = "VALORANT"
    /\ current_popup # 0 /\ popups[current_popup].visible

(***************************************************************************)
(* Properties of the HotkeyManager (specification SpecHotkey).             *)
(***************************************************************************)
\* C4: when reregister_hotkeys(cfg) has just returned True, exactly one
\* listener is running and it is the manager's; it is bound to the combination
\* cfg parses to; pressing any other combination invokes no callback and
\* pressing the new one invokes the registered callback once.
C4_ReregisterLeavesOneListener ==
    (hkev.op = "reregister" /\ hkev.ret)
      => /\ Len(listeners) = 1
         /\ hk.listener = 1 /\ hk.hotkey_active
         /\ listeners[1].combo = ParseHotkey(hkev.cfg)
         /\ \A combo \in Combos \ {ParseHotkey(hkev.cfg)} :
                FiredCallbacks(hk, listeners, combo) = 0
         /\ hk.on_hotkey_pressed_callback # NoCallback
              => FiredCallbacks(hk, listeners, ParseHotkey(hkev.cfg)) = 1

\* reregister_hotkeys has just returned True for the two-modifier combination
\* while the other caller is inside a call of its own
C4_Witness ==
    /\ hkev.op = "reregister" /\ hkev.ret
    /\ ParseHotkey(hkev.cfg) = "<alt>+<shift>+g"
    /\ hk.on_hotkey_pressed_callback = AppCallback
    /\ \E t \in Threads : thr[t].pc # "idle"

\* a caller holds the lock
InCriticalSection(t) == thr[t].pc \in {"unreg_cs", "reg_cs", "reg_start"}

\* a caller has begun the work of its operation and not yet returned
InOperation(t) ==
    \/ InCriticalSection(t)
    \/ thr[t].op = "reregister" /\ thr[t].pc = "reg_wait"

\* C5, as claimed: register, unregister and reregister exclude each other, the
\* whole teardown-then-register of reregister included: no caller works on its
\* operation while another caller is inside one.
C5_OperationsExclusive ==
    \A t1, t2 \in Threads : (t1 # t2) => ~(InOperation(t1) /\ InOperation(t2))

\* C5, amended: the bodies of register_global_hotkey and
\* unregister_global_hotkey exclude each other under the lock, the lock is
\* held by exactly the caller that is inside one, and at most one listener is
\* running at any time; reregister_hotkeys is two such bodies in a row.
C5_BodiesExclusive ==
    /\ \A t1, t2 \in Threads :
          (t1 # t2) => ~(InCriticalSection(t1) /\ InCriticalSection(t2))
    /\ \A t \in Threads : InCriticalSection(t) <=> (lock = t)
    /\ Len(listeners) <= 1

\* a caller is between the two halves of its reregister while the other
\* caller holds the lock and a listener is running
C5_Witness ==
    \E t1, t2 \in Threads :
        /\ t1 # t2
        /\ thr[t1].op = "reregister" /\ thr[t1].pc = "reg_wait"
        /\ InCriticalSection(t2)
        /\ Len(listeners) = 1

(***************************************************************************)
(* Properties of the ConfigManager (specification SpecConfig).             *)
(***************************************************************************)
\* the document exists and is not the JSON of valid settings
CorruptUserDoc(doc) ==
    /\ doc.kind # "missing"
    /\ ~(doc.kind = "json" /\ NewAppSettings(doc.val).raised = "")

\* C6, as claimed: for every corrupt or invalid existing user document
\* load_settings raises nothing, returns the hardcoded defaults and leaves a
\* valid document of the defaults in the file.
C6_CorruptSettingsRecovered ==
    (cfgev.op = "load_settings" /\ CorruptUserDoc(cfgev.doc))
      => /\ cfgev.raised = ""
         /\ cfgev.settings = DefaultSettings
         /\ disk.kind = "json"
         /\ NewAppSettings(disk.val) = [raised |-> "", val |-> DefaultSettings]

\* the entry is a mapping that GameConfig accepts
ValidEntry(member) ==
    member[2].t = "obj" /\ ValidateGameConfig(member[2]).ok

\* C7, as claimed: load_game_configs raises nothing and, for a games.json that
\* is a JSON object, returns every valid entry whatever the other entries
\* are.
C7_ValidEntriesKept ==
    (cfgev.op = "load_game_configs")
      => /\ cfgev.raised = ""
         /\ (games_doc.kind = "json" /\ games_doc.val.t = "obj")
              => \A i \in 1..Len(games_doc.val.v) :
                    ValidEntry(games_doc.val.v[i])
                      => \E k \in 1..Len(cfgev.catalog) :
                            /\ cfgev.catalog[k].name = games_doc.val.v[i][1]
                            /\ cfgev.catalog[k].cfg =
                                 ValidateGameConfig(games_doc.val.v[i][2]).val

(***************************************************************************)
(* Properties of the match loop and of _build_url (specification SpecPure, *)
(* C12 under Spec).                                                        *)
(***************************************************************************)
\* key occurs in title as a substring, letter case ignored
OccursIn(key, title) ==
    \E p \in 1..(Len(title) + 1) :
        /\ p + Len(key) - 1 <= Len(title)
        /\ Lower(SubSeq(title, p, p + Len(key) - 1)) = Lower(key)

\* C11: for every title and catalog the match is the first entry, in the
\* catalog's order, whose key occurs in the title as a case-insensitive
\* substring, and there is no match exactly when no key occurs in the title.
C11_MatchIsFirstOccurrence ==
    (ev.step = "Match")
      => LET occ == { i \in 1..Len(game_configs) :
                        OccursIn(game_configs[i].name, ev.title) }
         IN /\ (ev.idx = 0) <=> (occ = {})
            /\ (ev.idx # 0) => (ev.idx \in occ /\ \A j \in occ : ev.idx <= j)

\* three keys occur in the title and the first entry won
C11_Witness ==
    /\ ev.step = "Match" /\ ev.title = "ELDEN RING"
    /\ game_configs = CatalogTie /\ ev.idx = 1

\* C12, as claimed: for every catalog a run with an empty title takes the
\* no-match branch and raises nothing.
C12_EmptyTitleNoMatch ==
    (ev.step = "HandleHotkey" /\ ev.title = "") => (ev.kind = "no_match")

\* the entry a call of _build_url or of the outcome handling was made for
CalledConfig == game_configs[ev.idx].cfg

C14_TemplateSubstitution ==
    (/\ ev.step = "Build" /\ ev.text # ""
     /\ CalledConfig.NeedsSearch /\ CalledConfig.SearchTemplate # "")
      => LET kmap == CalledConfig.KeywordMap
             eff == IF Lower(ev.text) \in DOMAIN kmap THEN kmap[Lower(ev.text)]
                    ELSE ev.text
             template == CalledConfig.SearchTemplate
         IN /\ ev.url = Replace(template, "{query}", QuotePlus(eff))
            /\ (template = "https://wiki.example/search?q={query}"
                /\ ev.text = "fire staff")
                 => ev.url = "https://wiki.example/search?q=fire+staff"
            /\ (template = "https://w.ex/s?q={query}" /\ ev.text = "Boss")
                 => ev.url = "https://w.ex/s?q=Bosses"
            /\ (template = "https://w.ex/s?q={query}" /\ ev.text = "big boss")
                 => ev.url = "https://w.ex/s?q=big+boss"

\* the example of the claim
C14_Witness ==
    /\ ev.step = "Build" /\ ev.text = "fire staff"
    /\ ev.url = "https://wiki.example/search?q=fire+staff"

\* C15: when the dialog's outcome is OPEN_LAST the target is
\* last_search_url_str verbatim, without _build_url and with
\* last_search_url_str unchanged, if there is one; otherwise it is the
\* profile's BaseUrl, built by _build_url without a term.
C15_OpenLastTarget ==
    [][ (ev'.step = "PromptTarget" /\ ev'.code = "OPEN_LAST")
          => IF last_search_url_str # ""
             THEN /\ ev'.kind = "target" /\ ev'.url = last_search_url_str
                  /\ ~ev'.built
                  /\ UNCHANGED last_search_url_str
             ELSE /\ ev'.kind = "target"
                  /\ ev'.url = game_configs[ev'.idx].cfg.BaseUrl
                  /\ ev'.built ]_vars

\* OPEN_LAST reused the URL of another profile
C15_Witness ==
    /\ ev.step = "PromptTarget" /\ ev.code = "OPEN_LAST" /\ ~ev.built
    /\ ev.url = "https://w.ex/s?q=Bosses"
    /\ game_configs[ev.idx].name = "elden"

(***************************************************************************)
(* Persistence of the settings (specification SpecConfig).                 *)
(***************************************************************************)
\* two JSON values have the same structured content: objects are compared
\* member by member whatever their order, lists element by element
RECURSIVE JsonEq(_, _)
JsonEq(a, b) ==
    IF a.t # b.t THEN FALSE
    ELSE IF a.t = "obj"
    THEN /\ Keys(a) = Keys(b)
         /\ \A k \in Keys(a) : JsonEq(Get(a, k), Get(b, k))
    ELSE IF a.t = "list"
    THEN /\ Len(a.v) = Len(b.v)
         /\ \A i \in 1..Len(a.v) : JsonEq(a.v[i], b.v[i])
    ELSE a.v = b.v

\* the document is the JSON of valid settings
ValidUserDoc(doc) ==
    doc.kind = "json" /\ NewAppSettings(doc.val).raised = ""

\* the document names every field of AppSettings and nothing else
CompleteDoc(doc) ==
    /\ ValidUserDoc(doc)
    /\ Keys(doc.val) = {"Hotkey", "Popup"}
    /\ Keys(Get(doc.val, "Hotkey")) = {"Key", "Modifiers"}
    /\ Keys(Get(doc.val, "Popup")) = PopupFields

\* the last call saved, with success, what load_settings had returned from
\* the valid document cfgev.doc
SavedLoaded ==
    /\ cfgev.op = "save_loaded"
    /\ cfgev.w = "ok"
    /\ ValidUserDoc(cfgev.doc)

\* C16, as claimed: for every valid document D, load_settings and then
\* save_settings of the loaded value leave a document whose structured
\* content equals D's, and the following load returns equal settings.
C16_RoundTripKeepsDocument ==
    SavedLoaded
      => /\ disk.kind = "json"
         /\ JsonEq(disk.val, cfgev.doc.val)
         /\ NewAppSettings(disk.val) = [raised |-> "", val |-> cfgev.settings]

\* C16, amended: the following load returns settings equal to the loaded
\* ones, which are those of D, and the content of the document equals D's
\* when D names every field of AppSettings and nothing else.
C16_RoundTripKeepsSettings ==
    SavedLoaded
      => /\ disk.kind = "json"
         /\ cfgev.settings = NewAppSettings(cfgev.doc.val).val
         /\ NewAppSettings(disk.val) = [raised |-> "", val |-> cfgev.settings]
         /\ CompleteDoc(cfgev.doc) => JsonEq(disk.val, cfgev.doc.val)

\* a complete document whose members are in another order was loaded and
\* saved again
C16_Witness ==
    /\ SavedLoaded
    /\ cfgev.doc = JsonDoc(Reordered)
    /\ disk # cfgev.doc

\* the last call was load_settings and it found no user document
MissingLoad ==
    cfgev.op = "load_settings" /\ cfgev.doc = MissingDoc

\* the shipped default document existed and was copied in place
Copied ==
    default_doc.kind # "missing" /\ cfgev.c = "ok"

SaveCall ==
    cfgev.op \in { "save_settings", "save_loaded" }

\* C18, as claimed: save_settings reports a write failure to its caller as
\* an IOError (OSError is the same class).
C18_WriteFailureRaises ==
    (SaveCall /\ cfgev.w # "ok")
      => cfgev.raised \in { "IOError", "OSError" }

\* C18, amended: save_settings raises exactly when the user directory
\* cannot be created, and then the document is untouched; a failure to open
\* or to write the file is swallowed, the call returns normally, and the
\* document is as it was when the file could not be opened.
C18_OnlyDirectoryFailureRaises ==
    SaveCall
      => /\ (cfgev.raised # "") <=> (cfgev.w = "dir_error")
         /\ (cfgev.raised # "")
              => cfgev.raised = "OSError" /\ disk = cfgev.doc
         /\ (cfgev.w = "io_error") => disk = cfgev.doc

\* a save whose file could not be opened returned normally
C18_Witness ==
    /\ SaveCall
    /\ cfgev.w = "io_error"
    /\ cfgev.raised = ""
    /\ disk = cfgev.doc
    /\ disk # SettingsDoc(cfgev.settings)

\* C19, as claimed: after a save, whatever its outcome, the user document
\* is the complete previous one or the complete new one.
C19_SaveIsAtomic ==
    SaveCall
      => \/ disk = cfgev.doc
         \/ disk = SettingsDoc(cfgev.settings)
(***************************************************************************)
(* The shutdown sequence (specification Spec).                             *)
(***************************************************************************)
\* the places of the step op in the trace of the last exit
PlacesOf(op) == { i \in 1..Len(ev.trace) : ev.trace[i].op = op }

\* C20, as claimed: an exit request on which no step fails closes a popup
\* that is on screen, which captures its geometry in the settings and saves
\* them; it then stops the hotkey listener, with no popup left on screen,
\* and only then shuts the web engine manager down, with no listener left
\* running.
C20_ShutdownOrder ==
    [][(ev'.step = "ExitApplication" /\ ev'.raised = "")
         => /\ PopupVisible(popups, current_popup)
                 => /\ PlacesOf("close_popup")' = {1}
                    /\ settings'.Popup = popups[current_popup].geom
                    /\ ~PopupVisible(popups', current_popup')
                    /\ current_popup' = 0
                    /\ (ev'.w = "ok") => disk' = SettingsDoc(settings')
            /\ ~PopupVisible(popups, current_popup)
                 => PlacesOf("close_popup")' = {} /\ settings' = settings
            /\ \E i, j \in 1..Len(ev'.trace) :
                 /\ PlacesOf("stop_listener")' = {i}
                 /\ PlacesOf("engine_shutdown")' = {j}
                 /\ \A k \in PlacesOf("close_popup")' : k < i
                 /\ i < j
                 /\ ~ev'.trace[i].popup_open
                 /\ ~ev'.trace[j].popup_open /\ ~ev'.trace[j].listening
            /\ hk'.listener = 0 /\ listeners' = <<>>
            /\ quit'
      ]_vars

\* C21, as claimed: whatever fails in a step of the shutdown, the later
\* steps are run: the listener is stopped, the web engine manager is shut
\* down and the application quits.
C21_ShutdownCompletes ==
    (ev.step = "ExitApplication")
      => /\ PlacesOf("stop_listener") # {}
         /\ PlacesOf("engine_shutdown") # {}
         /\ PlacesOf("quit") # {}
         /\ hk.listener = 0 /\ listeners = <<>>
(***************************************************************************)
(* Failed registrations (specification SpecHotkey).                        *)
(***************************************************************************)
\* the last step was the return False of register_global_hotkey at line 99,
\* before any listener is torn down
FailedBeforeTeardown(e) ==
    /\ e.op = "register" /\ ~e.ret
    /\ e.cfg.Key = ""

\* C22, as claimed: a register_global_hotkey that fails on its
\* configuration, before the old listener is torn down, leaves the
\* registration as it was: the same listener, the same configuration and
\* the same callback.
C22_FailedRegisterChangesNothing ==
    [][FailedBeforeTeardown(hkev') => UNCHANGED <<hk, listeners>>]_vars

\* C23, as claimed: a reregister_hotkeys whose registration fails returns
\* False with no listener left and hotkey_active false.
C23_FailedReregisterLeavesNone ==
    (hkev.op = "reregister" /\ ~hkev.ret)
      => /\ hk.listener = 0 /\ ~hk.hotkey_active
         /\ listeners = <<>>

\* C23, amended: when the platform rejects the new registration the
\* registrar is left with no listener and hotkey_active false; when the
\* configuration is invalid the call returns False at once and leaves the
\* registrar as it finds it, which is without a listener unless a
\* registration of another thread ran after the teardown.
C23_FailedReregisterByCause ==
    [][(hkev'.op = "reregister" /\ ~hkev'.ret)
         => IF hkev'.cfg.Key = ""
            THEN /\ hk'.listener = hk.listener
                 /\ hk'.hotkey_active = hk.hotkey_active
                 /\ listeners' = listeners
            ELSE /\ hk'.listener = 0 /\ ~hk'.hotkey_active
                 /\ listeners' = <<>>
      ]_vars

\* the platform has rejected the registration of a reregister_hotkeys that
\* had torn a running listener down
C23_Witness ==
    /\ hkev.op = "reregister" /\ ~hkev.ret
    /\ hkev.cfg.Key # ""
    /\ hk.listener = 0 /\ ~hk.hotkey_active
    /\ hk.current_hotkey_config = NoConfig
(***************************************************************************)
(* Threads, failures and persistence of the orchestrator (specification    *)
(* Spec).                                                                  *)
(***************************************************************************)
\* the steps of the pipeline: the slot up to the prompt, and the rest of it
\* once the prompt has returned
PipelineSteps == { "HandleHotkey", "ResolvePrompt" }

\* C24: the callback fired on the listener thread only queues a
\* hotkey-fired event: it touches neither the settings, the popup, the last
\* search nor the disk, and every pipeline step runs on the control thread.
C24_ListenerOnlyEnqueues ==
    [][/\ (ev'.thread = "listener")
            => /\ pending' > pending
               /\ UNCHANGED <<settings, current_popup, last_search_url_str,
                              popups, disk, stack, game_configs, quit>>
       /\ (ev'.step \in PipelineSteps) => (ev'.thread = "control")
       /\ (ev'.step = "HotkeyFired") => (ev'.thread = "listener")
      ]_vars

\* a hotkey has fired on the listener thread while a popup was open and a
\* search was remembered
C24_Witness ==
    /\ ev.step = "HotkeyFired" /\ ev.thread = "listener"
    /\ pending > 0
    /\ current_popup # 0 /\ last_search_url_str # ""

\* C25, as claimed: the settings and the reference to the active popup are
\* written by the control thread only, whichever menu or window asked for
\* the step.
C25_OnlyControlThreadWrites ==
    [][(settings' # settings \/ current_popup' # current_popup)
         => (ev'.thread = "control")]_vars

\* C26, as claimed: a pipeline run whose popup cannot be created or shown
\* tells the user, leaves no new popup behind and leaves the last search and
\* the active popup as they were when the run started.
C26_OpenFailureChangesNothing ==
    [][(ev'.step = "HandleHotkey" /\ ev'.kind = "open_failed")
         => /\ ev'.note # ""
            /\ popups' = popups
            /\ current_popup' = current_popup
            /\ last_search_url_str' = last_search_url_str]_vars

\* C27, as claimed: a registration of the hotkey that fails, at startup or
\* on a change from the settings window, is told to the user, and the
\* application goes on without an active hotkey.
C27_RegistrationFailureNotified ==
    (ev.step \in {"start", "SaveHotkey"} /\ ~ev.registered)
      => /\ ev.note # ""
         /\ ~quit
         /\ ~hk.hotkey_active

\* how a pipeline run may end or pause
RunEndings ==
    { "opened", "focus_existing", "cancelled", "open_failed", "no_match",
      "no_url", "prompt" }

\* C28, as claimed: no exception leaves a pipeline run: whatever the
\* catalog, the title and the tray icon, it opens a popup, focuses the
\* existing one, is cancelled, or logs or notifies an error.
C28_RunNeverRaises ==
    (ev.step \in PipelineSteps) => (ev.kind \in RunEndings)

\* the user has closed the popup that was the active one
ClosedActive(e, cur) == e.step = "UserClosesPopup" /\ e.idx = cur

\* C29, as claimed: when the user closes the active popup the settings take
\* its final geometry and are persisted and the active popup becomes empty.
C29_CloseSavesGeometry ==
    [][ClosedActive(ev', current_popup)
         => /\ settings'.Popup = popups[current_popup].geom
            /\ disk' = SettingsDoc(settings')
            /\ current_popup' = 0]_vars

\* C29, amended: the settings take the final geometry; they are persisted
\* when the write succeeds, and a write that cannot open the document is
\* swallowed and leaves the document as it was; the active popup becomes
\* empty unless the user directory cannot be created, when the OSError
\* leaves the handler with the active popup still set and the document
\* untouched.  The next popup opened has the geometry of the settings.
C29_CloseSavesGeometryIfWritten ==
    [][/\ ClosedActive(ev', current_popup)
            => /\ settings'.Popup = popups[current_popup].geom
               /\ settings'.Hotkey = settings.Hotkey
               /\ (ev'.w = "ok") => (disk' = SettingsDoc(settings'))
               /\ (ev'.w = "io_error") => (disk' = disk)
               /\ (ev'.w # "dir_error") <=> (ev'.raised = "")
               /\ (ev'.raised = "") => (current_popup' = 0)
               /\ (ev'.raised # "")
                     => (current_popup' = current_popup /\ disk' = disk)
       /\ (ev'.step \in PipelineSteps /\ ev'.kind = "opened")
            => (popups'[current_popup'].geom = settings.Popup)
      ]_vars

\* a popup opened with the geometry a closed popup had left in the settings
C29_Witness ==
    /\ ev.step \in PipelineSteps /\ ev.kind = "opened"
    /\ settings.Popup # DefaultPopupConfig
    /\ disk = SettingsDoc(settings)
    /\ popups[current_popup].geom = settings.Popup

\* the last step has changed the settings and its write has succeeded
MutationWritten(e) ==
    \/ e.step \in {"UserClosesPopup", "DeliverPopupClosing"}
         /\ e.w = "ok" /\ e.raised = ""
    \/ e.step = "SaveHotkey" /\ e.kind = "hotkey_saved" /\ e.w = "ok"

\* C30, as claimed: after a change of the settings by the orchestrator whose
\* write succeeds, the persisted document equals the settings in memory.
C30_DocumentEqualsSettings ==
    MutationWritten(ev) => (disk = SettingsDoc(settings))
(***************************************************************************)
(* The translation of a hotkey (specification SpecPure).                   *)
(***************************************************************************)
\* the token of each known modifier
KnownModifierTokens ==
    [m \in {"Ctrl", "Shift", "Alt", "Win"} |->
        CASE m = "Ctrl" -> "<ctrl>" [] m = "Shift" -> "<shift>"
          [] m = "Alt" -> "<alt>" [] m = "Win" -> "<cmd>"]

IsKnownModifier(m) == m \in DOMAIN KnownModifierTokens

\* one token for each known modifier, in the order of the configuration,
\* then the token of the key
ExpectedTokens(c) ==
    LET known == SelectSeq(c.Modifiers, IsKnownModifier)
    IN [i \in 1..Len(known) |-> KnownModifierTokens[known[i]]]
         \o << IF Len(c.Key) = 1 THEN Lower(c.Key)
               ELSE "<" \o Lower(c.Key) \o ">" >>

RECURSIVE PlusJoined(_)
\* the tokens with a '+' between neighbours
PlusJoined(tokens) ==
    IF Len(tokens) = 1 THEN tokens[1]
    ELSE PlusJoined(SubSeq(tokens, 1, Len(tokens) - 1))
           \o "+" \o tokens[Len(tokens)]

\* C31: _parse_hotkey gives, joined by '+', one token for each known
\* modifier in the order of the configuration (unknown ones are dropped) and
\* then the key: in angle brackets and lower case for F1-F12 and every other
\* name of several characters, the bare lower-case character otherwise.
C31_ParseHotkeyTokens ==
    (ev.step = "Parse") => (ev.text = PlusJoined(ExpectedTokens(ev.cfg)))

\* a configuration with an unknown modifier before a known one and a
\* function key has been translated
C31_Witness ==
    /\ ev.step = "Parse"
    /\ ev.cfg = [Key |-> "F12", Modifiers |-> <<"Hyper", "Win">>]
    /\ ev.text = "<cmd>+<f12>"

\* a single-character key has been translated to the bare character
C31_WitnessBare ==
    /\ ev.step = "Parse"
    /\ ev.cfg = [Key |-> "G", Modifiers |-> <<"Alt", "Shift">>]
    /\ ev.text = "<alt>+<shift>+g"

(***************************************************************************)
(* The prompt's pre-filled value and its outcomes.                         *)
(***************************************************************************)
\* C32, as claimed: the prompt is given the last URL as its pre-filled value
\* exactly when there is one and it does not start with the BaseUrl of the
\* matched entry.
C32_PrefilledUnlessStartsWith ==
    (ev.step = "PromptLastTerm")
      => (ev.text = IF ev.url # "" /\ ~StartsWith(CalledConfig.BaseUrl, ev.url)
                    THEN ev.url ELSE "")

\* base occurs somewhere in url
OccursAnywhere(base, url) ==
    \E p \in 1..(Len(url) + 1) :
        /\ p + Len(base) - 1 <= Len(url)
        /\ SubSeq(url, p, p + Len(base) - 1) = base

\* C32, amended: the prompt is given the last URL as its pre-filled value
\* exactly when there is one and the BaseUrl of the matched entry occurs
\* nowhere in it; a last URL that holds the BaseUrl anywhere, at its start
\* or further in, gives no pre-filled value.
C32_PrefilledUnlessContains ==
    (ev.step = "PromptLastTerm")
      => (ev.text = IF ev.url # "" /\ ~OccursAnywhere(CalledConfig.BaseUrl, ev.url)
                    THEN ev.url ELSE "")

\* the last URL holds the BaseUrl further in, and nothing was pre-filled
C32_Witness ==
    /\ ev.step = "PromptLastTerm"
    /\ ev.url # "" /\ ev.text = ""
    /\ ~StartsWith(CalledConfig.BaseUrl, ev.url)

\* the last URL of another entry was pre-filled
C32_WitnessFilled ==
    /\ ev.step = "PromptLastTerm"
    /\ ev.text # "" /\ ev.text = ev.url
(***************************************************************************)
(* The outcomes of the prompt in a pipeline run (specification Spec).      *)
(***************************************************************************)
\* the run has reached lines 174-190, where the popup is created and shown
ReachedOpen(e) ==
    e.step \in PipelineSteps /\ e.kind \in {"opened", "open_failed"}

\* C33: a prompt accepted with an empty term, or one of blanks only, sends
\* the run to the popup with the BaseUrl of the matched entry and makes that
\* the last search, as the run of an entry that needs no search does.
C33_EmptyTermOpensBaseUrl ==
    (ev.step = "ResolvePrompt" /\ ev.code = "ACCEPTED" /\ Strip(ev.text) = "")
      => /\ ReachedOpen(ev)
         /\ ev.url = ConfigOf(ev.game).BaseUrl
         /\ last_search_url_str = ConfigOf(ev.game).BaseUrl
         /\ (ev.kind = "opened") =>
               /\ PopupVisible(popups, current_popup)
               /\ popups[current_popup].url = ConfigOf(ev.game).BaseUrl

\* a prompt accepted with a blank has opened the popup on the BaseUrl
C33_Witness ==
    /\ ev.step = "ResolvePrompt" /\ ev.code = "ACCEPTED" /\ ev.text = " "
    /\ ev.kind = "opened"
    /\ popups[current_popup].url = ConfigOf(ev.game).BaseUrl

\* C36: whenever a run reaches the creation of the popup,
\* last_search_url_str is the URL the popup is created for, on every branch.
C36_LastSearchIsTarget ==
    ReachedOpen(ev) => (ev.url # "" /\ last_search_url_str = ev.url)

\* Open Last has opened the popup on the URL of an earlier run
C36_Witness ==
    /\ ev.step = "ResolvePrompt" /\ ev.code = "OPEN_LAST"
    /\ ev.kind = "opened" /\ ~ev.built
    /\ last_search_url_str = popups[current_popup].url

\* C37: the prompt returns OPEN_LAST only if it was built with a last value,
\* which is a last URL that is not empty and does not hold the BaseUrl of
\* the matched entry; so the run never finds last_search_url_str empty on
\* OPEN_LAST and never builds a URL for it.
C37_OpenLastNeedsPrefill ==
    (ev.step = "ResolvePrompt" /\ ev.code = "OPEN_LAST")
      => /\ ev.last_term # ""
         /\ ~OccursAnywhere(ConfigOf(ev.game).BaseUrl, ev.last_term)
         /\ ~ev.built
         /\ last_search_url_str # ""

\* a prompt built with the URL of another entry has returned OPEN_LAST
C37_Witness ==
    /\ ev.step = "ResolvePrompt" /\ ev.code = "OPEN_LAST"
    /\ ev.last_term # "" /\ ev.url = ev.last_term

\* C34: when start() fails catastrophically (an exception leaves one of its
\* steps), the orderly shutdown is run and the application then terminates
\* instead of going on without its services.
C34_StartFailureTerminates ==
    (ev.step = "start" /\ ev.kind = "start_failed")
      => /\ PlacesOf("quit") # {}
         /\ quit

\* C39: every exit request ends with the quit of the application being
\* reached as the last statement run, whatever was answered in the settings
\* window's close confirmation, the answer Exit, which requests the exit
\* again, included.
C39_ExitReachesQuit ==
    (ev.step = "ExitApplication")
      => /\ ev.trace # <<>>
         /\ ev.trace[Len(ev.trace)].op = "quit"
         /\ ev.raised = ""

\* the operations of the registrar that callers complete
RegistrarOps == { "register", "unregister", "reregister" }

\* C35: after every completed operation of the registrar (register,
\* unregister as itself or as stop_listener_if_running, reregister, in any
\* order, by any caller and with any outcome), hotkey_active is true exactly
\* when a listener object is held, the listener held is the only one that
\* was started and not stopped, and none runs when none is held.
C35_ActiveIffListenerHeld ==
    (hkev.op \in RegistrarOps)
      => /\ hk.hotkey_active <=> (hk.listener # 0)
         /\ Len(listeners) <= 1
         /\ Len(listeners) = (IF hk.listener # 0 THEN 1 ELSE 0)

\* a reregistration that replaced a running listener by a new one
C35_Witness ==
    /\ hkev.op = "reregister"
    /\ hkev.ret
    /\ hk.hotkey_active
    /\ hk.listener = 1
    /\ Len(listeners) = 1
    /\ listeners[1].combo = ParseHotkey(hkev.cfg)

\* a registration that failed in the platform and left nothing behind
C35_WitnessFailed ==
    /\ hkev.op = "register"
    /\ ~hkev.ret
    /\ hkev.cfg.Key # ""
    /\ ~hk.hotkey_active
    /\ hk.listener = 0
    /\ listeners = <<>>

\* a hotkey change saved from the settings window whose reregistration failed
SavedNotRegistered(e) ==
    e.step = "SaveHotkey" /\ e.kind = "hotkey_saved" /\ ~e.registered

\* the settings document doc holds the hotkey config c
PersistedHotkeyIs(doc, c) ==
    /\ doc.kind = "json"
    /\ NewAppSettings(doc.val).raised = ""
    /\ NewAppSettings(doc.val).val.Hotkey = c

\* no listener is held, active or running
NoListenerActive ==
    hk.listener = 0 /\ ~hk.hotkey_active /\ listeners = <<>>

\* C38, as claimed: when a hotkey change saved from the settings window fails
\* to re-register, the persisted and the in-memory hotkey config are both the
\* new config and no listener is active.
C38_FailedChangeKeepsNewConfig ==
    SavedNotRegistered(ev)
      => /\ PersistedHotkeyIs(disk, ev.cfg)
         /\ settings.Hotkey = ev.cfg
         /\ NoListenerActive

\* C38, amended: when a hotkey change saved from the settings window fails to
\* re-register, the in-memory hotkey config is the new config, no listener is
\* active and the manager holds no current config; the persisted hotkey
\* config is the new config if the document was written.
C38_FailedChangeKeepsNewConfigIfWritten ==
    SavedNotRegistered(ev)
      => /\ settings.Hotkey = ev.cfg
         /\ NoListenerActive
         /\ hk.current_hotkey_config = NoConfig
         /\ (ev.w = "ok") => PersistedHotkeyIs(disk, ev.cfg)

\* a failed change of the hotkey, written to the document, that took the
\* place of the default hotkey
C38_Witness ==
    /\ SavedNotRegistered(ev)
    /\ ev.w = "ok"
    /\ ev.cfg # DefaultHotkeyConfig
    /\ PersistedHotkeyIs(disk, ev.cfg)
    /\ settings.Hotkey = ev.cfg
    /\ NoListenerActive

\* the firings queued and not yet handled change by one firing or one run
QueueStep ==
    /\ (ev'.step = "HotkeyFired") => (pending' = pending + 1)
    /\ (ev'.step = "HandleHotkey")
         => (pending > 0 /\ pending' = pending - 1 /\ ev'.thread = "control")
    /\ (pending' # pending) => (ev'.step \in {"HotkeyFired", "HandleHotkey"})

\* C40, as claimed: firings queue and do not coalesce, and every firing
\* eventually causes its pipeline run on the control thread: as long as a
\* call waits, another run follows.
C40_EveryFiringRuns ==
    /\ [][QueueStep]_vars
    /\ \A n \in 1..MaxQueued :
         /\ (pending = n /\ ev.step # "HandleHotkey")
              ~> (ev.step = "HandleHotkey")
         /\ (pending = n /\ ev.step = "HandleHotkey")
              ~> (pending < n \/ ev.step # "HandleHotkey")

\* C40, amended: firings queue and do not coalesce: each firing adds one
\* waiting call, each pipeline run on the control thread takes one, nothing
\* else changes their number, and as long as a call waits another run
\* follows, unless the application ends first.
C40_FiringsQueueAndRun ==
    /\ [][QueueStep]_vars
    /\ \A n \in 1..MaxQueued :
         /\ (pending = n /\ ~quit /\ ev.step # "HandleHotkey")
              ~> (ev.step = "HandleHotkey" \/ quit)
         /\ (pending = n /\ ~quit /\ ev.step = "HandleHotkey")
              ~> (pending < n \/ ev.step # "HandleHotkey" \/ quit)

\* a second firing has arrived before the first was handled
C40_Witness ==
    /\ ev.step = "HotkeyFired"
    /\ pending = 2
    /\ ~quit
    /\ Len(listeners) = 1
====
